---------------------------- MODULE Spec2Model ----------------------------
(***************************************************************************)
(* Model of the derby match engine: derby_simulator/derbysim.py (DerbySim) *)
(* and derby_simulator/playercubes.py (Player and its subclasses).         *)
(*                                                                         *)
(* A pad index of the program (0-based) is pad+1 in a TLA+ sequence.  The  *)
(* Python value None is the empty tuple <<>>, an int i is <<i>>.            *)
(***************************************************************************)
EXTENDS Integers, Sequences, FiniteSets, TLC

VARIABLES
    roster,           \* the players argument the constructor was given
    players,          \* self.players: the roster listing (names of the cubes)
    num_squares,      \* self.num_squares
    shuffle_players,  \* self.shuffle_players
    track,            \* self.track: sequence of pads, each a stack (bottom first)
    cubes,            \* the Player objects: name -> [position, ability_expended, ability_active, num_carried]
    next_round_order, \* self.next_round_order: pending (player, pos) overrides
    api,              \* which entry point the caller drives: "one_round", "full_game",
                      \* "simulate_batch", or "move_player_to"
    leg,              \* 0: as constructed; 1, 2: the half_game in progress (or just ended)
    pc,               \* position inside one_round / half_game
    round_order,      \* one_round's local round_order
    round_turns,      \* the turns of round_turns the for loop has not finished (head = current)
    current_rank,     \* one_round's local current_rank[0]
    num_steps,        \* one_round's local num_steps of the current turn
    steps_done,       \* number of self.step calls made in the current turn
    pending,          \* step's local actions not yet applied (head = next)
    post_idx,         \* index (1-based) in self.players of one_round's post-round loop
    winners,          \* the value one_round returned last (half_game's local winners)
    first_winners,    \* full_game's local first_winners
    batch,            \* simulate_batch's arguments and locals: n, normalized, the number of
                      \* full_game calls that returned (done), winners, and the value returned
    twin,             \* a second simulator, built from another listing, that is given the
                      \* same random draws: its players, track, cubes, the turns left of its
                      \* round, the winners its round returned and its error
    error,            \* "ok", or the exception that ended the program
    step_log,         \* history: one entry per calculate_actions call of the current turn: its
                      \* first_step, last_step, stacked_on, stacked_by, and the player's pad (pos),
                      \* the stack on the next pad (ahead) and the cube's fields (self) at the
                      \* call, and the outcome of its True/False draw (trig)
    start_pos,        \* history: the current player's position when its turn began
    post_calls,       \* history: name -> the ranks passed to its post_round callback in the current round
    round_log,        \* history: the track, the overrides applied and the turns as rolled at
                      \* the start of the round in progress or just won
    leg_log,          \* history: the winners each half_game returned, oldest first
    rounds,           \* history: <<k>> when one_round has rolled k rounds since the last
                      \* match_setup, in the specifications that count them; None elsewhere
    last_draws        \* history: the random draws the last action consumed

vars == <<rounds, first_winners, batch, twin, leg_log, roster, players, num_squares, shuffle_players, track, cubes, next_round_order,
          api, leg, pc, round_order, round_turns, current_rank, num_steps,
          steps_done, pending, post_idx, winners, error, step_log, start_pos,
          post_calls, round_log, last_draws>>

----------------------------------------------------------------------------
(* Bounds of the model *)

\* largest num_squares passed to the constructor by a caller that drives one_round itself
MaxNumSquares == 4

\* default of match_setup's num_squares parameter, the one half_game relies on
DefaultNumSquares == 23

None == <<>>

----------------------------------------------------------------------------
(* Python list operations *)

Range(s) == {s[i] : i \in 1..Len(s)}

Min(a, b) == IF a < b THEN a ELSE b

Max(a, b) == IF a > b THEN a ELSE b

Reverse(s) == [i \in 1..Len(s) |-> s[Len(s) + 1 - i]]

\* list.index(x), 1-based; 0 when x is absent (Python raises ValueError)
IndexOf(s, x) ==
    IF x \in Range(s)
    THEN CHOOSE i \in 1..Len(s) : s[i] = x /\ \A j \in 1..(i - 1) : s[j] # x
    ELSE 0

\* list.remove(x): the first occurrence is dropped
Remove(s, x) ==
    LET k == IndexOf(s, x)
    IN SubSeq(s, 1, k - 1) \o SubSeq(s, k + 1, Len(s))

\* list.insert(i, x) with Python's 0-based, clamped index
InsertAt(s, i, x) ==
    LET k == IF i < 0 THEN Max(0, Len(s) + i) ELSE Min(i, Len(s))
    IN SubSeq(s, 1, k) \o <<x>> \o SubSeq(s, k + 1, Len(s))

\* a variant of LastN that takes the whole list
LastN_Whole(s, n) == s

\* s[-n:]
LastN(s, n) ==
    IF n <= 0 THEN s ELSE SubSeq(s, Max(1, Len(s) - n + 1), Len(s))

\* a variant of Perms that samples with replacement (rand.choices)
Perms_WithReplacement(s) == [1..Len(s) -> Range(s)]

\* every ordering of the list s (rand.sample(s, len(s)), rand.shuffle(s))
Perms(s) ==
    LET n == Len(s)
        bij == {f \in [1..n -> 1..n] : \A i, j \in 1..n : f[i] = f[j] => i = j}
    IN {[i \in 1..n |-> s[f[i]]] : f \in bij}

RECURSIVE Flatten(_)
Flatten(ss) == IF ss = <<>> THEN <<>> ELSE Head(ss) \o Flatten(Tail(ss))

EmptyTrack(n) == [i \in 1..n |-> <<>>]

\* the number of cubes on the track t
RECURSIVE SumLen(_)
SumLen(t) == IF t = <<>> THEN 0 ELSE Len(Head(t)) + SumLen(Tail(t))

----------------------------------------------------------------------------
(* DerbySim: queries on the track *)

\* get_summary: (position, players) of every non-empty pad, smallest position first
RECURSIVE DenseFrom(_, _)
DenseFrom(t, i) ==
    IF i > Len(t) THEN <<>>
    ELSE (IF Len(t[i]) > 0 THEN <<[pos |-> i - 1, players |-> t[i]]>> ELSE <<>>)
         \o DenseFrom(t, i + 1)

get_summary(t) == DenseFrom(t, 1)

\* a variant of get_ranks that numbers the flattened stacks without reversing them
get_ranks_Unreversed(t) ==
    LET dense == get_summary(t)
        ranks == Flatten([i \in 1..Len(dense) |-> dense[i].players])
    IN [p \in Range(ranks) |->
           CHOOSE r \in 1..Len(ranks) :
               ranks[r] = p /\ \A q \in (r + 1)..Len(ranks) : ranks[q] # p]

\* get_ranks: the stacks flattened, reversed and numbered from 1; a player listed
\* more than once keeps the last number given (dict comprehension)
get_ranks(t) ==
    LET dense == get_summary(t)
        ranks == Reverse(Flatten([i \in 1..Len(dense) |-> dense[i].players]))
    IN [p \in Range(ranks) |->
           CHOOSE r \in 1..Len(ranks) :
               ranks[r] = p /\ \A q \in (r + 1)..Len(ranks) : ranks[q] # p]

\* a variant of get_winners that never finds the finish pad occupied
get_winners_Empty(t) == <<>>

\* get_winners: a copy of the finish pad
get_winners(t) == IF Len(t[Len(t)]) > 0 THEN t[Len(t)] ELSE <<>>

\* get_stacked_players: (stacked_on, stacked_by) of player on its recorded pad
get_stacked_players(t, cs, player) ==
    LET square == t[cs[player].position + 1]
        current_square_rank == IndexOf(square, player)
    IN [stacked_on |-> SubSeq(square, 1, current_square_rank - 1),
        stacked_by |-> IF current_square_rank < Len(square)
                       THEN SubSeq(square, current_square_rank + 1, Len(square))
                       ELSE <<>>]

----------------------------------------------------------------------------
(* DerbySim: moving a player.  st = [track, cubes, error]; once error is    *)
(* not "ok" an exception is propagating and nothing more is done.          *)

\* a variant of update_pos that leaves the recorded position as it was
update_pos_Stale(cs, player, new_pos) == cs

\* Player.update_pos
update_pos(cs, player, new_pos) == [cs EXCEPT ![player].position = new_pos]

\* a variant of move_player_to that looks the player up on the whole track
\* instead of trusting its recorded position
move_player_to_Search(st, player, new_pos, stack_position) ==
    LET removed == [i \in 1..Len(st.track) |->
                       IF player \in Range(st.track[i]) THEN Remove(st.track[i], player)
                       ELSE st.track[i]]
    IN [track |-> [removed EXCEPT ![new_pos + 1] =
                      IF stack_position = None
                      THEN Append(@, player)
                      ELSE InsertAt(@, stack_position[1], player)],
        cubes |-> update_pos(st.cubes, player, new_pos),
        error |-> "ok"]

move_player_to(st, player, new_pos, stack_position) ==
    IF st.error # "ok" THEN st
    ELSE IF player \notin Range(st.track[st.cubes[player].position + 1])
    THEN [st EXCEPT !.error = "ValueError"]    \* list.remove(x): x not in list
    ELSE LET removed == [st.track EXCEPT ![st.cubes[player].position + 1] = Remove(@, player)]
         IN IF new_pos + 1 > Len(removed)
            THEN [st EXCEPT !.track = removed, !.error = "IndexError"]
            ELSE [track |-> [removed EXCEPT ![new_pos + 1] =
                                IF stack_position = None
                                THEN Append(@, player)
                                ELSE InsertAt(@, stack_position[1], player)],
                  cubes |-> update_pos(st.cubes, player, new_pos),
                  error |-> "ok"]

\* a variant of move_forward that slides the player under the stack it reaches
move_forward_Under(st, player, step_size, stack_position) ==
    move_player_to(st, player, st.cubes[player].position + step_size, <<0>>)

\* an action is <<moving_player, step_size, stack_position>>
move_forward(st, player, step_size, stack_position) ==
    move_player_to(st, player, st.cubes[player].position + step_size, stack_position)

\* "for action in actions: self.move_forward(...)"
RECURSIVE ApplyActions(_, _)
ApplyActions(st, actions) ==
    IF actions = <<>> THEN st
    ELSE ApplyActions(move_forward(st, Head(actions)[1], Head(actions)[2], Head(actions)[3]),
                      Tail(actions))

----------------------------------------------------------------------------
(* playercubes.py.  A cube is named after its class; every other name is a *)
(* plain Player.  self is the record of the cube's own fields.  A random   *)
(* draw is [die, trig]: die is the face the dice shows, trig the outcome   *)
(* of the cube's weighted True/False draw.                                 *)

\* Player.__init__ (and the subclasses' __init__)
NewPlayer == [position |-> 0, ability_expended |-> FALSE, ability_active |-> FALSE,
              num_carried |-> 0]

\* the faces the cube's dice can show: rand.randint(1, 3), rand.choice((1, 3)), rand.choice((2, 3))
DieFaces(name) ==
    CASE name = "Zani" -> {1, 3}
      [] name = "Shorekeeper" -> {2, 3}
      [] OTHER -> {1, 2, 3}

\* a variant of Player.roll whose dice has the faces 0, 1, 2
Player_roll_FromZero(self, draw) == [roll |-> draw.die - 1, bonus |-> 0, self |-> self]

\* Player.roll
Player_roll(self, draw) == [roll |-> draw.die, bonus |-> 0, self |-> self]

\* RocciaCube.roll
RocciaCube_roll(self, order, draw) ==
    [roll |-> draw.die,
     bonus |-> IF IndexOf(order, "Roccia") = Len(order) THEN 2 ELSE 0,
     self |-> self]

\* a variant of BrantCube.roll that gives the bonus to the last of the order
BrantCube_roll_Last(self, order, draw) ==
    [roll |-> draw.die,
     bonus |-> IF IndexOf(order, "Brant") = Len(order) THEN 2 ELSE 0,
     self |-> self]

\* BrantCube.roll
BrantCube_roll(self, order, draw) ==
    [roll |-> draw.die,
     bonus |-> IF IndexOf(order, "Brant") = 1 THEN 2 ELSE 0,
     self |-> self]

\* ZaniCube.roll, roll_ability inlined
ZaniCube_roll(self, stacked_by, draw) ==
    LET roll_ability == Len(stacked_by) > 0 /\ draw.trig
    IN IF self.ability_active
       THEN [roll |-> draw.die, bonus |-> 2,
             self |-> [self EXCEPT !.ability_active = roll_ability]]
       ELSE [roll |-> draw.die, bonus |-> 0,
             self |-> [self EXCEPT !.ability_active = IF roll_ability THEN TRUE ELSE @]]

\* PhoebeCube.roll
PhoebeCube_roll(self, draw) ==
    [roll |-> draw.die, bonus |-> IF draw.trig THEN 1 ELSE 0, self |-> self]

\* CartethiyaCube.roll
CartethiyaCube_roll(self, draw) ==
    [roll |-> draw.die,
     bonus |-> IF self.ability_active THEN (IF draw.trig THEN 2 ELSE 0) ELSE 0,
     self |-> self]

\* CarlottaCube.roll
CarlottaCube_roll(self, draw) ==
    [roll |-> draw.die, bonus |-> IF draw.trig THEN draw.die ELSE 0, self |-> self]

\* CalcharoCube.roll
CalcharoCube_roll(self, order, draw) ==
    [roll |-> draw.die,
     bonus |-> IF IndexOf(order, "Calcharo") = Len(order) THEN 3 ELSE 0,
     self |-> self]

\* player.roll(round_order, stacked_on, stacked_by), dispatched on the class
roll(name, self, order, stacked_on, stacked_by, draw) ==
    CASE name = "Roccia" -> RocciaCube_roll(self, order, draw)
      [] name = "Brant" -> BrantCube_roll(self, order, draw)
      [] name = "Zani" -> ZaniCube_roll(self, stacked_by, draw)
      [] name = "Phoebe" -> PhoebeCube_roll(self, draw)
      [] name = "Cartethiya" -> CartethiyaCube_roll(self, draw)
      [] name = "Carlotta" -> CarlottaCube_roll(self, draw)
      [] name = "Calcharo" -> CalcharoCube_roll(self, order, draw)
      [] OTHER -> Player_roll(self, draw)

\* does the cube's roll consult its True/False draw at all
RollDraws(name) == name \in {"Zani", "Phoebe", "Cartethiya", "Carlotta"}

\* a variant of Player.calculate_actions that queues the cubes above with
\* insert(0, ...), ahead of self
Player_calculate_actions_AboveFirst(name, self, step_size, stacked_by) ==
    [actions |-> [i \in 1..Len(stacked_by) |-> <<stacked_by[Len(stacked_by) + 1 - i], step_size, None>>]
                 \o <<<<name, step_size, None>>>>,
     self |-> self]

\* a variant of Player.calculate_actions that moves self alone
Player_calculate_actions_Alone(name, self, step_size, stacked_by) ==
    [actions |-> <<<<name, step_size, None>>>>, self |-> self]

\* Player.calculate_actions: self, then the cubes stacked above, in order
Player_calculate_actions(name, self, step_size, stacked_by) ==
    [actions |-> <<<<name, step_size, None>>>>
                 \o [i \in 1..Len(stacked_by) |-> <<stacked_by[i], step_size, None>>],
     self |-> self]

\* a variant of CantarellaCube.calculate_actions that goes on carrying the cubes
\* below it in the turns after the one in which the ability was used
CantarellaCube_calculate_actions_CarriesAgain(name, self, step_size, stacked_on, stacked_by, first_step, last_step) ==
    LET default == Player_calculate_actions(name, self, step_size, stacked_by)
        carry(carried) ==
            [i \in 1..Len(carried) |-> <<Reverse(carried)[i], step_size, None>>]
            \o <<<<name, step_size, None>>>>
            \o [i \in 1..Len(stacked_by) |-> <<stacked_by[i], step_size, None>>]
        r == IF first_step THEN default
             ELSE IF Len(stacked_on) < 1 THEN default
             ELSE IF ~self.ability_expended
             THEN [actions |-> carry(stacked_on),
                   self |-> [self EXCEPT !.ability_expended = TRUE,
                                         !.ability_active = TRUE,
                                         !.num_carried = Len(stacked_on)]]
             ELSE [actions |-> carry(LastN(stacked_on, self.num_carried)), self |-> self]
    IN IF last_step THEN [r EXCEPT !.self.ability_active = FALSE] ELSE r

\* CantarellaCube.calculate_actions
CantarellaCube_calculate_actions(name, self, step_size, stacked_on, stacked_by, first_step, last_step) ==
    LET default == Player_calculate_actions(name, self, step_size, stacked_by)
        \* action.insert(0, ...) for each carried cube in turn, then the appends
        carry(carried) ==
            [i \in 1..Len(carried) |-> <<Reverse(carried)[i], step_size, None>>]
            \o <<<<name, step_size, None>>>>
            \o [i \in 1..Len(stacked_by) |-> <<stacked_by[i], step_size, None>>]
        r == IF first_step THEN default
             ELSE IF Len(stacked_on) < 1 THEN default
             ELSE IF ~self.ability_expended
             THEN [actions |-> carry(stacked_on),
                   self |-> [self EXCEPT !.ability_expended = TRUE,
                                         !.ability_active = TRUE,
                                         !.num_carried = Len(stacked_on)]]
             ELSE IF self.ability_active
             THEN [actions |-> carry(LastN(stacked_on, self.num_carried)), self |-> self]
             ELSE default
    IN IF last_step THEN [r EXCEPT !.self.ability_active = FALSE] ELSE r

\* a variant of JinhsiCube.calculate_actions that, when the ability triggers,
\* takes the cubes above along
JinhsiCube_calculate_actions_TakesAbove(name, self, step_size, stacked_by, first_step, trig) ==
    Player_calculate_actions(name, [self EXCEPT !.ability_active = FALSE], step_size, stacked_by)

\* JinhsiCube.calculate_actions
JinhsiCube_calculate_actions(name, self, step_size, stacked_by, first_step, trig) ==
    LET active == IF first_step /\ Len(stacked_by) > 0 THEN trig ELSE self.ability_active
    IN IF active
       THEN [actions |-> <<<<name, 0, None>>, <<name, step_size, None>>>>,
             self |-> [self EXCEPT !.ability_active = FALSE]]
       ELSE Player_calculate_actions(name, [self EXCEPT !.ability_active = active],
                                     step_size, stacked_by)

\* a variant of CamellyaCube.calculate_actions whose ability triggers on the first
\* step of a turn, the flag set or not
CamellyaCube_calculate_actions_Triggered(name, self, step_size, stacked_on, stacked_by, first_step, trig) ==
    IF first_step
    THEN [actions |-> <<<<name, Len(stacked_on) + Len(stacked_by), None>>,
                        <<name, step_size, None>>>>,
          self |-> [self EXCEPT !.ability_active = FALSE]]
    ELSE Player_calculate_actions(name, self, step_size, stacked_by)

\* CamellyaCube.calculate_actions
CamellyaCube_calculate_actions(name, self, step_size, stacked_on, stacked_by, first_step, trig) ==
    LET active == IF first_step /\ self.ability_active THEN trig ELSE self.ability_active
    IN IF active
       THEN [actions |-> <<<<name, Len(stacked_on) + Len(stacked_by), None>>,
                           <<name, step_size, None>>>>,
             self |-> [self EXCEPT !.ability_active = FALSE]]
       ELSE Player_calculate_actions(name, [self EXCEPT !.ability_active = active],
                                     step_size, stacked_by)

\* player.calculate_actions(...), dispatched on the class
calculate_actions(name, self, step_size, stacked_on, stacked_by, first_step, last_step, trig) ==
    CASE name = "Cantarella" ->
            CantarellaCube_calculate_actions(name, self, step_size, stacked_on, stacked_by,
                                             first_step, last_step)
      [] name = "Jinhsi" ->
            JinhsiCube_calculate_actions(name, self, step_size, stacked_by, first_step, trig)
      [] name = "Camellya" ->
            CamellyaCube_calculate_actions(name, self, step_size, stacked_on, stacked_by,
                                           first_step, trig)
      [] OTHER -> Player_calculate_actions(name, self, step_size, stacked_by)

\* does the call draw from the random source
StepDraws(name, self, stacked_by, first_step) ==
    \/ name = "Jinhsi" /\ first_step /\ Len(stacked_by) > 0
    \/ name = "Camellya" /\ first_step /\ self.ability_active

\* Player.post_round
Player_post_round(self) == [actions |-> <<>>, next_round_order |-> <<>>, self |-> self]

\* CartethiyaCube.post_round; current_rank is the pair (rank, number of players)
CartethiyaCube_post_round(self, rank, num_players) ==
    Player_post_round(IF rank = num_players
                      THEN [self EXCEPT !.ability_active = TRUE]
                      ELSE self)

\* ChangliCube.post_round.  rand.choices returns a one-element list, which is
\* what ability_active is set to: the field holds its truth value, that of <<trig>>.
ChangliCube_post_round(name, self, stacked_on, trig) ==
    LET active == IF Len(stacked_on) > 0 THEN Len(<<trig>>) > 0 ELSE self.ability_active
        self2 == [self EXCEPT !.ability_active = active]
    IN IF active
       THEN [actions |-> <<>>, next_round_order |-> <<<<name, None>>>>, self |-> self2]
       ELSE Player_post_round(self2)

\* player.post_round(round_order, current_rank, stacked_on, stacked_by), dispatched
post_round_cb(name, self, rank, num_players, stacked_on, trig) ==
    CASE name = "Cartethiya" -> CartethiyaCube_post_round(self, rank, num_players)
      [] name = "Changli" -> ChangliCube_post_round(name, self, stacked_on, trig)
      [] OTHER -> Player_post_round(self)

----------------------------------------------------------------------------
(* DerbySim: setting a match up, rolling a round *)

\* match_setup(players, num_squares, first_half=True): everyone on the first pad,
\* in the order of the listing
match_setup_first(listing, cs, n) ==
    [track |-> [EmptyTrack(n) EXCEPT ![1] = @ \o listing],
     cubes |-> [p \in DOMAIN cs |-> IF p \in Range(listing)
                                     THEN [cs[p] EXCEPT !.position = 0] ELSE cs[p]]]

\* a variant of match_setup's second half that adds no pad for the groups
match_setup_second_NoExtra(t, cs, n) ==
    LET summary == get_summary(t)
        group_of(p) == CHOOSE g \in 1..Len(summary) : p \in Range(summary[g].players)
    IN [track |-> [i \in 1..n |-> IF i <= Len(summary) THEN summary[i].players ELSE <<>>],
        cubes |-> [p \in DOMAIN cs |-> [cs[p] EXCEPT !.position = group_of(p) - 1]]]

\* a variant of match_setup's second half that walks the groups from the winners
\* back, so that the winners start on pad 0
match_setup_second_WinnersFirst(t, cs, n) ==
    LET summary == Reverse(get_summary(t))
        group_of(p) == CHOOSE g \in 1..Len(summary) : p \in Range(summary[g].players)
    IN [track |-> [i \in 1..(n + Len(summary)) |->
                      IF i <= Len(summary) THEN summary[i].players ELSE <<>>],
        cubes |-> [p \in DOMAIN cs |-> [cs[p] EXCEPT !.position = group_of(p) - 1]]]

\* a variant of match_setup's second half that builds the players anew
match_setup_second_Fresh(t, cs, n) ==
    LET summary == get_summary(t)
        group_of(p) == CHOOSE g \in 1..Len(summary) : p \in Range(summary[g].players)
    IN [track |-> [i \in 1..(n + Len(summary)) |->
                      IF i <= Len(summary) THEN summary[i].players ELSE <<>>],
        cubes |-> [p \in DOMAIN cs |-> [NewPlayer EXCEPT !.position = group_of(p) - 1]]]

\* match_setup(players, num_squares, first_half=False): one pad per group of the
\* previous track, in the order of get_summary
match_setup_second(t, cs, n) ==
    LET summary == get_summary(t)
        track_len == n + Len(summary)
        group_of(p) == CHOOSE g \in 1..Len(summary) : p \in Range(summary[g].players)
    IN [track |-> [i \in 1..track_len |->
                      IF i <= Len(summary) THEN summary[i].players ELSE <<>>],
        cubes |-> [p \in DOMAIN cs |->
                      IF \E g \in 1..Len(summary) : p \in Range(summary[g].players)
                      THEN [cs[p] EXCEPT !.position = group_of(p) - 1] ELSE cs[p]]]

\* a variant of one_round's line 271 that leaves the requests in the queue
cleared_queue_Kept(queue) == queue

\* one_round, line 271: self.next_round_order = []
cleared_queue(queue) == <<>>

\* a variant of roll_round_order that returns the sample as drawn
roll_round_order_Unmodified(sample, modify_order) == sample

\* roll_round_order: sample is rand.sample(self.players, len(self.players))
RECURSIVE roll_round_order(_, _)
roll_round_order(sample, modify_order) ==
    IF modify_order = <<>> THEN sample
    ELSE LET player == Head(modify_order)[1]
             pos == Head(modify_order)[2]
             removed == Remove(sample, player)
         IN roll_round_order(IF pos = None THEN Append(removed, player)
                             ELSE InsertAt(removed, pos[1], player),
                             Tail(modify_order))

\* a variant of roll_turns that rolls for the first player of the order alone
roll_turns_FirstOnly(order, cs, draws, i) ==
    IF i > Len(order) THEN [moves |-> <<>>, cubes |-> cs]
    ELSE LET r == roll(order[i], cs[order[i]], order, <<>>, <<>>, draws[i])
         IN [moves |-> <<[player |-> order[i], roll |-> r.roll, bonus |-> r.bonus]>>,
             cubes |-> [cs EXCEPT ![order[i]] = r.self]]

\* roll_turns: every player of the order rolls, in order; player.roll is called
\* with round_order alone, so stacked_on and stacked_by are the defaults ()
RECURSIVE roll_turns(_, _, _, _)
roll_turns(order, cs, draws, i) ==
    IF i > Len(order) THEN [moves |-> <<>>, cubes |-> cs]
    ELSE LET r == roll(order[i], cs[order[i]], order, <<>>, <<>>, draws[i])
             rest == roll_turns(order, [cs EXCEPT ![order[i]] = r.self], draws, i + 1)
         IN [moves |-> <<[player |-> order[i], roll |-> r.roll, bonus |-> r.bonus]>>
                       \o rest.moves,
             cubes |-> rest.cubes]

\* the draws a round of rolls can consume
RollDrawsOf(order) ==
    {d \in [1..Len(order) -> [die : 1..3, trig : BOOLEAN]] :
        \A i \in 1..Len(order) :
            /\ d[i].die \in DieFaces(order[i])
            /\ ~RollDraws(order[i]) => ~d[i].trig}

\* a variant of NumSteps that caps the roll one pad behind the finish line
NumSteps_OneMore(roll_, bonus, track_len, position) ==
    LET steps_until_end == track_len - position
    IN Min(roll_ + bonus, steps_until_end)

\* a variant of NumSteps that does not cap the roll at the finish line
NumSteps_NoCap(roll_, bonus, track_len, position) == roll_ + bonus

\* one_round, lines 283-284: steps_until_end and num_steps of a turn
NumSteps(roll_, bonus, track_len, position) ==
    LET steps_until_end == (track_len - 1) - position
    IN Min(roll_ + bonus, steps_until_end)

\* a variant of StepFlags that tags every call but the last as a first step
StepFlags_AllFirst(k, n) == [first_step |-> k < n \/ n = 1, last_step |-> k = n]

\* one_round's branches on num_steps: the (first_step, last_step) of the k-th self.step call
StepFlags(k, n) ==
    IF n = 1 THEN [first_step |-> TRUE, last_step |-> TRUE]
    ELSE IF k = 1 THEN [first_step |-> TRUE, last_step |-> FALSE]
    ELSE IF k <= n - 1 THEN [first_step |-> FALSE, last_step |-> FALSE]
    ELSE [first_step |-> FALSE, last_step |-> TRUE]

\* DerbySim.post_round: every player's post_round callback is called with the
\* current_rank handed in, and without stacked_on; the actions are applied and the
\* collected requests replace self.next_round_order
RECURSIVE post_round_collect(_, _, _, _, _)
post_round_collect(listing, cs, rank, trig, i) ==
    IF i > Len(listing) THEN [actions |-> <<>>, next_round_order |-> <<>>, cubes |-> cs]
    ELSE LET r == post_round_cb(listing[i], cs[listing[i]], rank, Len(listing), <<>>, trig)
             rest == post_round_collect(listing, [cs EXCEPT ![listing[i]] = r.self],
                                        rank, trig, i + 1)
         IN [actions |-> r.actions \o rest.actions,
             next_round_order |-> r.next_round_order \o rest.next_round_order,
             cubes |-> rest.cubes]

post_round(listing, t, cs, rank, trig) ==
    LET got == post_round_collect(listing, cs, rank, trig, 1)
        st == ApplyActions([track |-> t, cubes |-> got.cubes, error |-> "ok"], got.actions)
    IN [track |-> st.track, cubes |-> st.cubes, error |-> st.error,
        next_round_order |-> got.next_round_order]

----------------------------------------------------------------------------
(* A turn and a post-round phase of one_round as functions of the simulator *)
(* st = [track, cubes, error], for rosters whose cubes draw nothing outside *)
(* their rolls.                                                             *)

\* one_round, lines 287-311, and step: the k-th to the n-th self.step call of a turn
RECURSIVE play_steps(_, _, _, _)
play_steps(st, player, k, n) ==
    IF k > n \/ st.error # "ok" THEN st
    ELSE LET flags == StepFlags(k, n)
             stacked == get_stacked_players(st.track, st.cubes, player)
             r == calculate_actions(player, st.cubes[player], 1, stacked.stacked_on,
                                    stacked.stacked_by, flags.first_step, flags.last_step,
                                    FALSE)
         IN play_steps(ApplyActions([st EXCEPT !.cubes[player] = r.self], r.actions),
                       player, k + 1, n)

\* one_round, lines 280-311: the turn of a player with its roll
play_turn(st, turn) ==
    play_steps(st, turn.player, 1,
               NumSteps(turn.roll, turn.bonus, Len(st.track), st.cubes[turn.player].position))

\* one_round, lines 331-336: self.post_round for every player of the listing
RECURSIVE post_rounds(_, _, _)
post_rounds(listing, st, i) ==
    IF i > Len(listing) \/ st.error # "ok" THEN st
    ELSE LET r == post_round(listing, st.track, st.cubes, get_ranks(st.track)[listing[i]],
                             FALSE)
         IN post_rounds(listing, [track |-> r.track, cubes |-> r.cubes, error |-> r.error],
                        i + 1)

----------------------------------------------------------------------------
(* simulate_batch.  The float value / total is kept as the exact fraction    *)
(* <<value, total>>.                                                        *)

\* a variant of extend_results that tallies the second half alone
extend_results_SecondOnly(ws, results) == ws \o results[2]

\* simulate_batch, lines 403-404: winners.extend(results[0]); winners.extend(results[1])
extend_results(ws, results) == ws \o results[1] \o results[2]

\* the keys of Counter(ws): the entries of ws, each once, in the order they first occur
RECURSIVE Distinct(_)
Distinct(ws) ==
    IF ws = <<>> THEN <<>>
    ELSE <<Head(ws)>> \o Distinct(SelectSeq(Tail(ws), LAMBDA x : x # Head(ws)))

\* Counter(ws), as the list of its items (key, count)
Counter(ws) ==
    LET keys == Distinct(ws)
    IN [i \in 1..Len(keys) |->
           <<keys[i], Cardinality({j \in 1..Len(ws) : ws[j] = keys[i]})>>]

\* sum(winners.values())
RECURSIVE SumValues(_)
SumValues(items) == IF items = <<>> THEN 0 ELSE Head(items)[2] + SumValues(Tail(items))

\* a < b for two fractions
FracLess(a, b) == a[1] * b[2] < b[1] * a[2]

\* sorted(items, key=lambda x: x[1], reverse=True): the sort is stable, items of
\* equal frequency keep their order
RECURSIVE sorted_reverse(_)
sorted_reverse(items) ==
    IF items = <<>> THEN <<>>
    ELSE LET x == items[Len(items)]
             rest == sorted_reverse(SubSeq(items, 1, Len(items) - 1))
             k == Cardinality({i \in 1..Len(rest) : ~FracLess(rest[i][2], x[2])})
         IN SubSeq(rest, 1, k) \o <<x>> \o SubSeq(rest, k + 1, Len(rest))

\* simulate_batch, lines 406-415: what is returned for the list ws of winners
batch_result(ws, normalized) ==
    LET items == Counter(ws)
        total == SumValues(items)
    IN IF normalized
       THEN sorted_reverse([i \in 1..Len(items) |-> <<items[i][1], <<items[i][2], total>>>>])
       ELSE items

----------------------------------------------------------------------------
(* The callers.  A caller either builds a DerbySim on a short track and     *)
(* calls one_round itself, or calls full_game (as simulate_batch and main   *)
(* do), whose half_game sets the match up with match_setup's default        *)
(* num_squares.                                                            *)

\* the listings handed to the constructor
Rosters ==
    { <<"Cantarella", "Player1", "Player2">>,
      <<"Player1", "Cantarella", "Player2">>,
      <<"Changli", "Cartethiya", "Zani">>,
      <<"Zani", "Cartethiya", "Changli">>,
      <<"Jinhsi", "Camellya", "Phoebe">>,
      <<"Camellya", "Phoebe", "Jinhsi">>,
      <<"Roccia", "Brant", "Calcharo">> }

ShuffledRosters ==
    { <<"Carlotta", "Shorekeeper">>,
      <<"Player1", "Player2">> }

FullGameRosters ==
    { <<"Cantarella", "Player1">> }

RoundScenarios ==
    [players : Rosters, num_squares : 1..MaxNumSquares,
     shuffle_players : {FALSE}, api : {"one_round"}]
    \cup [players : ShuffledRosters, num_squares : 1..MaxNumSquares,
          shuffle_players : {TRUE}, api : {"one_round"}]

FullGameScenarios ==
    [players : FullGameRosters, num_squares : {MaxNumSquares},
     shuffle_players : {FALSE}, api : {"full_game"}]

NoDraws == <<>>

NoRound == [start |-> <<>>, modify_order |-> <<>>, turns |-> <<>>]

\* simulate_batch is not running
NoBatch == [n |-> 0, normalized |-> FALSE, done |-> 0, winners |-> <<>>, returned |-> None]

\* there is no second simulator
NoTwin == [players |-> <<>>, track |-> <<>>, cubes |-> <<>>, turns |-> <<>>,
           winners |-> <<>>, error |-> "ok"]

\* an entry of the players argument that is neither a str nor a Player
NotAPlayer == "<neither str nor Player>"

\* DerbySim.__init__, lines 23-31: self.players.  Two default players when the
\* argument is empty; otherwise a Player for every str or Player entry, the other
\* entries dropped
init_players(arg) ==
    IF Len(arg) = 0 THEN <<"Player1", "Player2">>
    ELSE SelectSeq(arg, LAMBDA p : p # NotAPlayer)

\* DerbySim.__init__ but for self.next_round_order: the roster, then
\* match_setup(self.players, num_squares)
Construct(sc) ==
        \E listing \in (IF sc.shuffle_players THEN Perms(init_players(sc.players))
                        ELSE {init_players(sc.players)}) :
            LET fresh == [p \in Range(listing) |-> NewPlayer]
                m == match_setup_first(listing, fresh, sc.num_squares)
            IN /\ roster = sc.players
               /\ players = listing
               /\ num_squares = sc.num_squares
               /\ shuffle_players = sc.shuffle_players
               /\ track = m.track
               /\ cubes = m.cubes
               /\ api = sc.api
               /\ leg = 0
               /\ pc = "idle"
               /\ round_order = <<>>
               /\ round_turns = <<>>
               /\ current_rank = 0
               /\ num_steps = 0
               /\ steps_done = 0
               /\ pending = <<>>
               /\ post_idx = 0
               /\ winners = <<>>
               /\ error = "ok"
               /\ step_log = <<>>
               /\ start_pos = -1
               /\ post_calls = [p \in Range(listing) |-> <<>>]
               /\ round_log = NoRound
               /\ last_draws = NoDraws
               /\ first_winners = <<>>
               /\ leg_log = <<>>

Constructed(scenarios) == \E sc \in scenarios : Construct(sc)

\* DerbySim.__init__, by a caller other than simulate_batch and with no second
\* simulator beside it
InitOf(scenarios) ==
    /\ Constructed(scenarios)
    /\ next_round_order = <<>>
    /\ batch = NoBatch
    /\ twin = NoTwin
    /\ rounds = None

\* is one_round being called: by the caller itself, or by half_game's while loop
OneRoundCalled ==
    /\ pc = "idle"
    /\ \/ api = "one_round"
       \/ api \in {"full_game", "simulate_batch"} /\ leg \in {1, 2} /\ Len(winners) < 1

\* one_round, lines 265-268: there are winners already
OneRoundAbort ==
    /\ OneRoundCalled
    /\ Len(get_winners(track)) > 0
    /\ winners' = get_winners(track)
    /\ last_draws' = NoDraws
    /\ UNCHANGED <<rounds, first_winners, batch, twin, leg_log, round_log, roster, players, num_squares, shuffle_players, track, cubes, next_round_order,
                   api, leg, pc, round_order, round_turns, current_rank, num_steps,
                   steps_done, pending, post_idx, error, step_log, start_pos, post_calls>>

\* one_round, lines 270-272: the round order and every roll of the round
OneRoundStart ==
    /\ OneRoundCalled
    /\ Len(get_winners(track)) = 0
    /\ \E sample \in Perms(players) :
          LET order == roll_round_order(sample, next_round_order)
          IN \E draws \in RollDrawsOf(order) :
                LET rt == roll_turns(order, cubes, draws, 1)
                IN /\ round_order' = order
                   /\ round_turns' = rt.moves
                   /\ cubes' = rt.cubes
                   /\ last_draws' = draws
                   /\ round_log' = IF rt.moves = <<>> THEN NoRound
                                    ELSE [start |-> track, modify_order |-> next_round_order,
                                          turns |-> rt.moves]
                   \* without players there is no turn and no post-round pass: [] is returned
                   /\ pc' = IF rt.moves = <<>> THEN "idle" ELSE "turn"
    /\ next_round_order' = cleared_queue(next_round_order)
    /\ post_calls' = [p \in DOMAIN post_calls |-> <<>>]
    /\ rounds' = IF rounds = None THEN None ELSE <<rounds[1] + 1>>
    /\ UNCHANGED <<first_winners, batch, twin, leg_log, roster, players, num_squares, shuffle_players, track, api, leg, current_rank,
                   num_steps, steps_done, pending, post_idx, winners, error, step_log,
                   start_pos>>

\* one_round, lines 280-286: the head of a turn
TurnBegin ==
    /\ pc = "turn"
    /\ LET turn == Head(round_turns)
           n == NumSteps(turn.roll, turn.bonus, Len(track), cubes[turn.player].position)
       IN /\ current_rank' = get_ranks(track)[turn.player]
          /\ num_steps' = n
          /\ start_pos' = cubes[turn.player].position
          /\ pc' = IF n <= 0 THEN "check" ELSE "step"
    /\ steps_done' = 0
    /\ step_log' = <<>>
    /\ last_draws' = NoDraws
    /\ UNCHANGED <<rounds, first_winners, batch, twin, leg_log, round_log, roster, players, num_squares, shuffle_players, track, cubes, next_round_order,
                   api, leg, round_order, round_turns, pending, post_idx, winners, error,
                   post_calls>>

\* step, lines 243-254: the player is asked for its actions
Step ==
    /\ pc = "step"
    /\ LET player == Head(round_turns).player
           flags == StepFlags(steps_done + 1, num_steps)
           stacked == get_stacked_players(track, cubes, player)
       IN \E trig \in (IF StepDraws(player, cubes[player], stacked.stacked_by, flags.first_step)
                       THEN BOOLEAN ELSE {FALSE}) :
             LET r == calculate_actions(player, cubes[player], 1, stacked.stacked_on,
                                        stacked.stacked_by, flags.first_step,
                                        flags.last_step, trig)
             IN /\ cubes' = [cubes EXCEPT ![player] = r.self]
                /\ pending' = r.actions
                /\ step_log' = Append(step_log,
                                      [first_step |-> flags.first_step,
                                       last_step |-> flags.last_step,
                                       stacked_on |-> stacked.stacked_on,
                                       stacked_by |-> stacked.stacked_by,
                                       pos |-> cubes[player].position,
                                       ahead |-> IF cubes[player].position + 2 <= Len(track)
                                                 THEN track[cubes[player].position + 2]
                                                 ELSE <<>>,
                                       self |-> cubes[player],
                                       trig |-> trig])
                /\ last_draws' = <<[trig |-> trig]>>
    /\ steps_done' = steps_done + 1
    /\ pc' = "move"
    /\ UNCHANGED <<rounds, first_winners, batch, twin, leg_log, round_log, roster, players, num_squares, shuffle_players, track, next_round_order, api, leg,
                   round_order, round_turns, current_rank, num_steps, post_idx, winners,
                   error, start_pos, post_calls>>

\* step, lines 255-260: one action is applied
Move ==
    /\ pc = "move"
    /\ LET action == Head(pending)
           st == move_forward([track |-> track, cubes |-> cubes, error |-> "ok"],
                              action[1], action[2], action[3])
       IN /\ track' = st.track
          /\ cubes' = st.cubes
          /\ error' = st.error
          /\ pending' = IF st.error = "ok" THEN Tail(pending) ELSE <<>>
          /\ pc' = IF st.error # "ok" THEN "crashed"
                   ELSE IF Tail(pending) # <<>> THEN "move"
                   ELSE IF steps_done < num_steps THEN "step"
                   ELSE "check"
    /\ last_draws' = NoDraws
    /\ UNCHANGED <<rounds, first_winners, batch, twin, leg_log, round_log, roster, players, num_squares, shuffle_players, next_round_order, api, leg,
                   round_order, round_turns, current_rank, num_steps, steps_done, post_idx,
                   winners, step_log, start_pos, post_calls>>

\* one_round, lines 324-328: after a turn, the winners are returned if there are any
Check ==
    /\ pc = "check"
    /\ LET w == get_winners(track)
       IN IF Len(w) > 0
          THEN /\ winners' = w
               /\ pc' = "idle"
               /\ round_turns' = <<>>
               /\ round_order' = <<>>
               /\ post_idx' = post_idx
          ELSE /\ winners' = winners
               /\ round_turns' = Tail(round_turns)
               /\ pc' = IF Tail(round_turns) = <<>> THEN "post" ELSE "turn"
               /\ post_idx' = IF Tail(round_turns) = <<>> THEN 1 ELSE post_idx
               /\ round_order' = round_order
    /\ current_rank' = 0
    /\ num_steps' = 0
    /\ steps_done' = 0
    /\ step_log' = <<>>
    /\ start_pos' = -1
    /\ last_draws' = NoDraws
    \* half_game's while loop ends, and half_game returns, when one_round returns winners
    /\ leg_log' = IF leg \in {1, 2} /\ Len(get_winners(track)) > 0
                  THEN Append(leg_log, get_winners(track)) ELSE leg_log
    /\ UNCHANGED <<rounds, first_winners, batch, twin, round_log, roster, players, num_squares,
                   shuffle_players, track, cubes, next_round_order, api, leg, pending, error,
                   post_calls>>

\* one_round, lines 331-338: one pass of the post-round loop, a call of
\* self.post_round for self.players[post_idx]; after the last pass [] is returned
PostRound ==
    /\ pc = "post"
    /\ LET player == players[post_idx]
           rank == get_ranks(track)[player]
       IN \E trig \in (IF "Changli" \in Range(players) THEN BOOLEAN ELSE {FALSE}) :
             LET r == post_round(players, track, cubes, rank, trig)
             IN /\ track' = r.track
                /\ cubes' = r.cubes
                /\ error' = r.error
                /\ next_round_order' = r.next_round_order
                /\ post_calls' = [p \in DOMAIN post_calls |->
                                     IF p \in Range(players)
                                     THEN Append(post_calls[p], rank) ELSE post_calls[p]]
                /\ last_draws' = <<[trig |-> trig]>>
                /\ pc' = IF r.error # "ok" THEN "crashed"
                         ELSE IF post_idx < Len(players) THEN "post" ELSE "idle"
    /\ post_idx' = IF post_idx < Len(players) THEN post_idx + 1 ELSE 0
    /\ winners' = IF post_idx < Len(players) THEN winners ELSE <<>>
    /\ round_order' = IF post_idx < Len(players) THEN round_order ELSE <<>>
    /\ round_log' = IF post_idx < Len(players) THEN round_log ELSE NoRound
    /\ UNCHANGED <<rounds, first_winners, batch, twin, leg_log, roster, players, num_squares, shuffle_players, api, leg, round_turns,
                   current_rank, num_steps, steps_done, pending, step_log, start_pos>>

\* full_game -> half_game(first_half=True): match_setup(self.players, first_half=True)
FirstHalfSetup ==
    /\ pc = "idle"
    /\ \/ api = "full_game" /\ leg = 0
       \/ api = "simulate_batch" /\ leg = 0 /\ batch.done < batch.n
    /\ \E listing \in (IF shuffle_players THEN Perms(players) ELSE {players}) :
          LET m == match_setup_first(listing, cubes, DefaultNumSquares)
          IN /\ players' = listing
             /\ track' = m.track
             /\ cubes' = m.cubes
    /\ leg' = 1
    /\ winners' = <<>>
    /\ first_winners' = <<>>
    /\ rounds' = IF rounds = None THEN None ELSE <<0>>
    /\ round_log' = NoRound
    /\ last_draws' = NoDraws
    /\ UNCHANGED <<batch, twin, leg_log, roster, num_squares, shuffle_players, next_round_order, api, pc, round_order,
                   round_turns, current_rank, num_steps, steps_done, pending, post_idx,
                   error, step_log, start_pos, post_calls>>

\* full_game -> half_game(first_half=False), once the first half returned its winners
SecondHalfSetup ==
    /\ pc = "idle"
    /\ api \in {"full_game", "simulate_batch"}
    /\ leg = 1
    /\ Len(winners) >= 1
    /\ LET m == match_setup_second(track, cubes, DefaultNumSquares)
       IN /\ track' = m.track
          /\ cubes' = m.cubes
    /\ leg' = 2
    /\ first_winners' = winners
    /\ rounds' = IF rounds = None THEN None ELSE <<0>>
    /\ winners' = <<>>
    /\ round_log' = NoRound
    /\ last_draws' = NoDraws
    /\ UNCHANGED <<batch, twin, leg_log, roster, players, num_squares, shuffle_players, next_round_order, api, pc,
                   round_order, round_turns, current_rank, num_steps, steps_done, pending,
                   post_idx, error, step_log, start_pos, post_calls>>

\* a caller's own call of move_player_to(player, new_pos, stack_position), the
\* arguments held in pending
MovePlayerToCall ==
    /\ pc = "call"
    /\ LET call == Head(pending)
           st == move_player_to([track |-> track, cubes |-> cubes, error |-> "ok"],
                                call[1], call[2], call[3])
       IN /\ track' = st.track
          /\ cubes' = st.cubes
          /\ error' = st.error
          /\ pc' = IF st.error = "ok" THEN "returned" ELSE "crashed"
    /\ pending' = <<>>
    /\ UNCHANGED <<rounds, first_winners, batch, twin, leg_log, round_log, roster, players, num_squares, shuffle_players,
                   next_round_order, api, leg, round_order, round_turns, current_rank,
                   num_steps, steps_done, post_idx, winners, step_log, start_pos,
                   post_calls, last_draws>>

\* simulate_batch, lines 402-404: full_game returned (first_winners, second_winners)
\* and the two lists are added to winners
BatchTally ==
    /\ api = "simulate_batch"
    /\ pc = "idle"
    /\ leg = 2
    /\ Len(winners) >= 1
    /\ batch' = [batch EXCEPT !.winners = extend_results(@, <<first_winners, winners>>),
                              !.done = @ + 1]
    /\ leg' = 0
    /\ winners' = <<>>
    /\ first_winners' = <<>>
    /\ last_draws' = NoDraws
    /\ UNCHANGED <<rounds, twin, leg_log, round_log, roster, players, num_squares, shuffle_players,
                   track, cubes, next_round_order, api, pc, round_order, round_turns,
                   current_rank, num_steps, steps_done, pending, post_idx, error, step_log,
                   start_pos, post_calls>>

\* simulate_batch, lines 406-415: after the n-th full_game the tally is returned
BatchReturn ==
    /\ api = "simulate_batch"
    /\ pc = "idle"
    /\ leg = 0
    /\ batch.done = batch.n
    /\ batch' = [batch EXCEPT !.returned = batch_result(batch.winners, batch.normalized)]
    /\ pc' = "returned"
    /\ UNCHANGED <<rounds, first_winners, twin, leg_log, round_log, roster, players, num_squares,
                   shuffle_players, track, cubes, next_round_order, api, leg, round_order,
                   round_turns, current_rank, num_steps, steps_done, pending, post_idx,
                   winners, error, step_log, start_pos, post_calls, last_draws>>

\* the two simulators call one_round and are given the same permutation and the
\* same rolls
TwinRoundStart ==
    /\ api = "twin"
    /\ pc = "idle"
    /\ Len(get_winners(track)) = 0
    /\ Len(get_winners(twin.track)) = 0
    /\ \E sample \in Perms(players) :
          LET order == roll_round_order(sample, next_round_order)
          IN \E draws \in RollDrawsOf(order) :
                LET rt == roll_turns(order, cubes, draws, 1)
                    rt2 == roll_turns(order, twin.cubes, draws, 1)
                IN /\ round_order' = order
                   /\ round_turns' = rt.moves
                   /\ cubes' = rt.cubes
                   /\ twin' = [twin EXCEPT !.turns = rt2.moves, !.cubes = rt2.cubes]
                   /\ last_draws' = draws
    /\ pc' = "turn"
    /\ UNCHANGED <<rounds, first_winners, batch, leg_log, round_log, roster, players, num_squares,
                   shuffle_players, track, next_round_order, api, leg, current_rank,
                   num_steps, steps_done, pending, post_idx, winners, error, step_log,
                   start_pos, post_calls>>

\* the next turn of the round in both simulators, up to its get_winners test; the
\* comparison ends with the round that returns winners in either
TwinTurn ==
    /\ api = "twin"
    /\ pc = "turn"
    /\ LET st == play_turn([track |-> track, cubes |-> cubes, error |-> "ok"],
                           Head(round_turns))
           st2 == play_turn([track |-> twin.track, cubes |-> twin.cubes, error |-> "ok"],
                            Head(twin.turns))
           won == Len(get_winners(st.track)) > 0 \/ Len(get_winners(st2.track)) > 0
           failed == st.error # "ok" \/ st2.error # "ok"
       IN /\ track' = st.track
          /\ cubes' = st.cubes
          /\ error' = st.error
          /\ winners' = get_winners(st.track)
          /\ round_turns' = Tail(round_turns)
          /\ twin' = [twin EXCEPT !.track = st2.track, !.cubes = st2.cubes,
                                  !.error = st2.error, !.turns = Tail(@),
                                  !.winners = get_winners(st2.track)]
          /\ pc' = IF failed THEN "crashed"
                   ELSE IF won THEN "returned"
                   ELSE IF Tail(round_turns) = <<>> THEN "post" ELSE "turn"
    /\ last_draws' = NoDraws
    /\ UNCHANGED <<rounds, first_winners, batch, leg_log, round_log, roster, players, num_squares,
                   shuffle_players, next_round_order, api, leg, round_order, current_rank,
                   num_steps, steps_done, pending, post_idx, step_log, start_pos,
                   post_calls>>

\* the post-round phase of the round in both simulators
TwinPostRound ==
    /\ api = "twin"
    /\ pc = "post"
    /\ LET st == post_rounds(players, [track |-> track, cubes |-> cubes, error |-> "ok"], 1)
           st2 == post_rounds(twin.players,
                              [track |-> twin.track, cubes |-> twin.cubes, error |-> "ok"], 1)
       IN /\ track' = st.track
          /\ cubes' = st.cubes
          /\ error' = st.error
          /\ twin' = [twin EXCEPT !.track = st2.track, !.cubes = st2.cubes,
                                  !.error = st2.error]
          /\ pc' = IF st.error # "ok" \/ st2.error # "ok" THEN "crashed" ELSE "idle"
    /\ round_order' = <<>>
    /\ last_draws' = NoDraws
    /\ UNCHANGED <<rounds, first_winners, batch, leg_log, round_log, roster, players, num_squares,
                   shuffle_players, next_round_order, api, leg, round_turns, current_rank,
                   num_steps, steps_done, pending, post_idx, winners, step_log, start_pos,
                   post_calls>>

\* one_round, whoever calls it
Round ==
    \/ OneRoundStart
    \/ TurnBegin
    \/ Step
    \/ Move
    \/ Check
    \/ PostRound

\* a caller that calls one_round itself
Init == InitOf(RoundScenarios)

Next ==
    \/ OneRoundAbort
    \/ Round

Spec == Init /\ [][Next]_vars

\* a caller of full_game
InitFull == InitOf(FullGameScenarios)

NextFull ==
    \/ FirstHalfSetup
    \/ SecondHalfSetup
    \/ Round

SpecFull == InitFull /\ [][NextFull]_vars

\* the number of pads of the track move_player_to is called on
MovePads == 3

MoveRoster == <<"Player1", "Player2", "Player3">>

\* the stacks that can be made of the cubes of s, one of each at most
StacksOf(s) ==
    UNION {{st \in [1..n -> s] : \A i, j \in 1..n : st[i] = st[j] => i = j} :
              n \in 0..Cardinality(s)}

\* the tracks of n pads that hold every cube of the listing once
TracksOf(listing, n) ==
    {t \in [1..n -> StacksOf(Range(listing))] :
        /\ SumLen(t) = Len(listing)
        /\ \A p \in Range(listing) : \E i \in 1..n : p \in Range(t[i])}

\* a caller of move_player_to: any track, any recorded positions on it (position is
\* a plain attribute, and Player.forward changes it without moving the cube), any
\* cube, any pad of the track, and as stack_position None or an index of the target
\* stack: 0 (the bottom) up to its height (the top), the cube itself not counted
InitMove ==
    \E t \in TracksOf(MoveRoster, MovePads) :
        \E pos \in [Range(MoveRoster) -> 0..(MovePads - 1)] :
            \E player \in Range(MoveRoster), new_pos \in 0..(MovePads - 1) :
              \E stack_position \in {None} \cup
                      {<<i>> : i \in 0..Len(SelectSeq(t[new_pos + 1], LAMBDA q : q # player))} :
                /\ roster = MoveRoster
                /\ players = MoveRoster
                /\ num_squares = MovePads
                /\ shuffle_players = FALSE
                /\ track = t
                /\ cubes = [p \in Range(MoveRoster) |-> [NewPlayer EXCEPT !.position = pos[p]]]
                /\ next_round_order = <<>>
                /\ api = "move_player_to"
                /\ leg = 0
                /\ pc = "call"
                /\ round_order = <<>>
                /\ round_turns = <<>>
                /\ current_rank = 0
                /\ num_steps = 0
                /\ steps_done = 0
                /\ pending = <<<<player, new_pos, stack_position>>>>
                /\ post_idx = 0
                /\ winners = <<>>
                /\ error = "ok"
                /\ step_log = <<>>
                /\ start_pos = -1
                /\ post_calls = [p \in Range(MoveRoster) |-> <<>>]
                /\ round_log = NoRound
                /\ last_draws = NoDraws
                /\ first_winners = <<>>
                /\ leg_log = <<>>
                /\ batch = NoBatch
                /\ twin = NoTwin
                /\ rounds = None

NextMove ==
    \/ MovePlayerToCall

SpecMove == InitMove /\ [][NextMove]_vars

\* the longest list of requests found in next_round_order
MaxRequests == 2

ReorderRosters ==
    { <<"Roccia", "Brant", "Calcharo">>,
      <<"Roccia">>,
      <<"Brant">> }

ReorderScenarios ==
    [players : ReorderRosters, num_squares : 1..MaxNumSquares,
     shuffle_players : {FALSE}, api : {"one_round"}]

\* the requests (player, pos) roll_round_order takes: pos is None or an index of
\* the order
Requests(listing) ==
    {<<p, pos>> : p \in Range(listing),
                  pos \in {None} \cup {<<i>> : i \in 0..(Len(listing) - 1)}}

\* the lists of requests a pass over the callbacks can leave: a callback is called
\* once and asks for its own cube, so no cube is named twice
RequestQueues(listing) ==
    UNION {{q \in [1..n -> Requests(listing)] :
               \A i, j \in 1..n : q[i][1] = q[j][1] => i = j} : n \in 0..MaxRequests}

\* a caller that calls one_round with requests stored in next_round_order, as a
\* post-round phase stores the requests its callbacks return
InitReorder ==
    /\ Constructed(ReorderScenarios)
    /\ next_round_order \in RequestQueues(players)
    /\ batch = NoBatch
    /\ twin = NoTwin
    /\ rounds = None

NextReorder ==
    \/ OneRoundAbort
    \/ Round

SpecReorder == InitReorder /\ [][NextReorder]_vars

\* arguments with no competitor in them, or with one competitor listed twice
MalformedRosters ==
    { <<>>,
      <<NotAPlayer>>,
      <<NotAPlayer, NotAPlayer>>,
      <<"Player1", "Player1">>,
      <<"Player1", "Player2", "Player1">> }

MalformedScenarios ==
    [players : MalformedRosters, num_squares : 1..MaxNumSquares,
     shuffle_players : {FALSE}, api : {"one_round"}]

\* a caller that hands the constructor a malformed roster and calls one_round
InitMalformed == InitOf(MalformedScenarios)

NextMalformed ==
    \/ OneRoundAbort
    \/ Round

SpecMalformed == InitMalformed /\ [][NextMalformed]_vars

\* the largest n simulate_batch is called with
MaxMatches == 2

SoloRosters ==
    { <<"Cartethiya">> }

PairRosters ==
    { <<"Player1", "Player2">> }

\* the calls of simulate_batch: a roster of one for up to MaxMatches matches, a
\* roster of two for one match; DerbySim is built with its default num_squares
BatchScenarios ==
    [players : SoloRosters, num_squares : {DefaultNumSquares}, shuffle_players : {TRUE},
     api : {"simulate_batch"}, n : 0..MaxMatches, normalized : BOOLEAN]
    \cup [players : PairRosters, num_squares : {DefaultNumSquares},
          shuffle_players : {FALSE}, api : {"simulate_batch"}, n : {1},
          normalized : {TRUE}]

\* simulate_batch, lines 399-400: DerbySim(players, shuffle_players), winners = []
InitBatch ==
    \E sc \in BatchScenarios :
        /\ Construct(sc)
        /\ next_round_order = <<>>
        /\ batch = [n |-> sc.n, normalized |-> sc.normalized, done |-> 0,
                    winners |-> <<>>, returned |-> None]
        /\ twin = NoTwin
        /\ rounds = None

NextBatch ==
    \/ FirstHalfSetup
    \/ SecondHalfSetup
    \/ Round
    \/ BatchTally
    \/ BatchReturn

SpecBatch == InitBatch /\ [][NextBatch]_vars

TwinRosters ==
    { <<"Player1", "Player2">>,
      <<"Cantarella", "Player1", "Player2">> }

TwinScenarios ==
    [players : TwinRosters, num_squares : 1..MaxNumSquares,
     shuffle_players : {FALSE}, api : {"twin"}]

\* two simulators built for the same roster, the second with the listing as
\* rand.shuffle(self.players) can leave it (match_setup, line 125)
InitTwin ==
    /\ Constructed(TwinScenarios)
    /\ next_round_order = <<>>
    /\ batch = NoBatch
    /\ rounds = None
    /\ \E listing \in Perms(players) :
          LET fresh == [p \in Range(listing) |-> NewPlayer]
              m == match_setup_first(listing, fresh, num_squares)
          IN twin = [players |-> listing, track |-> m.track, cubes |-> m.cubes,
                     turns |-> <<>>, winners |-> <<>>, error |-> "ok"]

NextTwin ==
    \/ TwinRoundStart
    \/ TwinTurn
    \/ TwinPostRound

SpecTwin == InitTwin /\ [][NextTwin]_vars

\* a caller that stores requests in next_round_order, as a post-round phase stores
\* the requests its callbacks return, and then calls full_game
QueuedRosters ==
    { <<"Shorekeeper", "Changli">> }

QueuedScenarios ==
    [players : QueuedRosters, num_squares : {DefaultNumSquares},
     shuffle_players : {FALSE}, api : {"full_game"}]

InitQueued ==
    /\ Constructed(QueuedScenarios)
    /\ next_round_order \in RequestQueues(players)
    /\ batch = NoBatch
    /\ twin = NoTwin
    /\ rounds = None

SpecQueued == InitQueued /\ [][NextFull]_vars

\* both callers
InitAll == InitOf(RoundScenarios \cup FullGameScenarios)

NextAll ==
    \/ OneRoundAbort
    \/ FirstHalfSetup
    \/ SecondHalfSetup
    \/ Round

SpecAll == InitAll /\ [][NextAll]_vars

\* full_game on rosters of one, and one_round called again and again on rosters
\* of two, the rounds since match_setup counted; the program runs on as long as it
\* has a step to take
GameRosters ==
    { <<"Player1">>,
      <<"Zani">>,
      <<"Shorekeeper">> }

GameRoundRosters ==
    { <<"Player1", "Player2">>,
      <<"Cantarella", "Jinhsi">> }

GameScenarios ==
    [players : GameRosters, num_squares : {DefaultNumSquares},
     shuffle_players : {FALSE}, api : {"full_game"}]
    \cup [players : GameRoundRosters, num_squares : 1..MaxNumSquares,
          shuffle_players : {FALSE}, api : {"one_round"}]

InitGame ==
    /\ Constructed(GameScenarios)
    /\ next_round_order = <<>>
    /\ batch = NoBatch
    /\ twin = NoTwin
    /\ rounds = <<0>>

\* where the program is: every step changes it, but a call of one_round that
\* returns at once the winners there are
position_in_game == <<leg, pc, pending, post_idx>>

SpecGame == InitGame /\ [][NextAll]_vars /\ WF_position_in_game(NextAll)

----------------------------------------------------------------------------
(* Properties *)

\* number of times p occurs on the track
Occurrences(t, p) == Cardinality({<<i, j>> \in (1..Len(t)) \X (1..Len(players)) :
                                     j <= Len(t[i]) /\ t[i][j] = p})

FinishIndex == Len(track) - 1

InRound == pc \in {"turn", "step", "move", "check", "post"}

\* C1: in every state of a match, in both legs and between any two applied
\* actions, every competitor stands exactly once on exactly one pad, the pads hold
\* as many competitors as the roster, and every recorded position is the index of
\* the pad that holds the competitor.
C1_TrackInvariant ==
    /\ SumLen(track) = Len(players)
    /\ \A p \in Range(players) :
          /\ Occurrences(track, p) = 1
          /\ cubes[p].position \in 0..FinishIndex
          /\ p \in Range(track[cubes[p].position + 1])

\* C1 witness: in the second leg, in the middle of a step, one of its actions
\* applied and another still to apply
C1_Witness ==
    /\ leg = 2
    /\ pc = "move"
    /\ Len(pending) = 1
    /\ Len(step_log) >= 2
    /\ \E p \in Range(players) : cubes[p].position > cubes[Head(pending)[1]].position

\* C2: once the finish pad is occupied at the end of a step, the round stops there:
\* the turn is over (no later step), the next thing one_round does is return
\* exactly the occupants of the finish pad, between 1 and roster-size of them,
\* without touching any pad, position or ability field and without calling any
\* post_round callback; and a further one_round of the same leg changes nothing.
C2_HaltOnWinner ==
    [][ /\ (Len(get_winners(track)) > 0 /\ pending = <<>> /\ pc # "idle") =>
              /\ pc = "check"
              /\ pc' = "idle"
              /\ track' = track
              /\ cubes' = cubes
              /\ winners' = track[Len(track)]
              /\ Len(winners') \in 1..Len(players)
              /\ \A p \in Range(players) : post_calls'[p] = <<>>
        /\ (Len(get_winners(track)) > 0 /\ pc = "idle" /\ leg' = leg) =>
              /\ track' = track
              /\ cubes' = cubes
              /\ pc' = "idle"
      ]_vars

\* C2 witness: a round returned two or more winners and left a competitor behind
C2_Witness ==
    /\ pc = "idle"
    /\ Len(winners) >= 2
    /\ winners = track[Len(track)]
    /\ \E p \in Range(players) : cubes[p].position < FinishIndex

IsPermutation(order, listing) ==
    /\ Len(order) = Len(listing)
    /\ \A p \in Range(listing) : Cardinality({i \in 1..Len(order) : order[i] = p}) = 1

\* C3: in every round of every leg the round order, overrides applied, is a
\* permutation of the roster, the rolls are made in that order and the turns are
\* taken in that order.
C3_RoundOrderPermutation ==
    InRound =>
        /\ IsPermutation(round_order, players)
        /\ LET done == Len(round_order) - Len(round_turns)
           IN /\ done >= 0
              /\ \A i \in 1..Len(round_turns) : round_turns[i].player = round_order[done + i]

\* C3 witness: a round of the second leg whose order is not the listing
C3_Witness ==
    /\ leg = 2
    /\ pc = "turn"
    /\ Len(round_turns) = Len(players)
    /\ round_order # players

IsPrefix(a, b) == Len(a) <= Len(b) /\ SubSeq(b, 1, Len(a)) = a

\* a step of the current turn has been applied completely
StepApplied == pc \in {"step", "check"} /\ steps_done >= 1 /\ pending = <<>>

LastCall == step_log[Len(step_log)]

Mover == Head(round_turns).player

\* the call was answered by Player.calculate_actions: the class does not override
\* it, or it is CantarellaCube on one of its three super() branches
DefaultStep(name, call) ==
    \/ name \notin {"Cantarella", "Jinhsi", "Camellya"}
    \/ /\ name = "Cantarella"
       /\ \/ call.first_step
          \/ Len(call.stacked_on) < 1
          \/ call.self.ability_expended /\ ~call.self.ability_active

\* C4: after a default step of c from pad p, whose stack was below, c, above, pad
\* p holds exactly below in its order, pad p+1 holds what it held followed by c
\* followed by above in its order, and c and every cube of above are recorded on p+1.
C4_DefaultStep ==
    (StepApplied /\ DefaultStep(Mover, LastCall)) =>
        /\ track[LastCall.pos + 1] = LastCall.stacked_on
        /\ track[LastCall.pos + 2] = LastCall.ahead \o <<Mover>> \o LastCall.stacked_by
        /\ \A q \in {Mover} \cup Range(LastCall.stacked_by) :
              cubes[q].position = LastCall.pos + 1
        /\ \A q \in Range(LastCall.stacked_on) : cubes[q].position = LastCall.pos

\* C4 witness: a default step was applied for a cube that had a cube below it and
\* a cube above it
C4_Witness ==
    /\ StepApplied
    /\ DefaultStep(Mover, LastCall)
    /\ Len(LastCall.stacked_on) >= 1
    /\ Len(LastCall.stacked_by) >= 1

\* the number of steps the claim gives a turn
ExpectedSteps ==
    LET turn == Head(round_turns)
        remaining == FinishIndex - start_pos
    IN Max(0, Min(turn.roll + turn.bonus, remaining))

\* C5: a turn calls calculate_actions min(base + bonus, remaining) times, remaining
\* measured from the position at the head of the turn, and not at all when that is
\* not positive; the first call alone is tagged first_step, the last alone
\* last_step; call k is made from the pad the first k-1 steps led to and finds
\* below it the cubes that stood on that pad.
C5_StepCount ==
    pc \in {"step", "move", "check"} =>
        /\ Len(step_log) = steps_done
        /\ steps_done <= ExpectedSteps
        /\ pc = "step" => steps_done < ExpectedSteps
        /\ pc = "check" => steps_done = ExpectedSteps
        /\ \A k \in 1..Len(step_log) :
              /\ step_log[k].first_step <=> k = 1
              /\ step_log[k].last_step <=> k = ExpectedSteps
              /\ step_log[k].pos = start_pos + k - 1
              /\ k >= 2 => IsPrefix(step_log[k - 1].ahead, step_log[k].stacked_on)

\* C5 witness: a turn that was not the first of its round, begun away from pad 0,
\* ended after two or more steps, fewer than the roll
C5_Witness ==
    /\ pc = "check"
    /\ Len(round_turns) < Len(players)
    /\ start_pos > 0
    /\ steps_done >= 2
    /\ Head(round_turns).roll + Head(round_turns).bonus > steps_done
    /\ Len(step_log[2].stacked_on) >= 1

\* C6: in a round without a winner every competitor's post_round callback is
\* called exactly once, with that competitor's own rank; in a round with a winner
\* it is not called.
C6_PostRoundOnceOwnRank ==
    \A p \in Range(players) :
        /\ Len(post_calls[p]) <= 1
        /\ \A i \in 1..Len(post_calls[p]) : post_calls[p][i] = get_ranks(track)[p]
        /\ (pc = "idle" /\ Len(winners) > 0) => post_calls[p] = <<>>
        /\ (pc = "idle" /\ \E q \in Range(players) : post_calls[q] # <<>>) =>
              Len(post_calls[p]) = 1

\* C7: when Cantarella, its one-shot ability unused, takes a step that is not the
\* first of its turn with two cubes below it, the next pad then holds the lower
\* carried cube, the upper carried cube and Cantarella in that order (and whatever
\* was above it), and the ability is expended.
C7_CarrierKeepsOrder ==
    (/\ StepApplied
     /\ Mover = "Cantarella"
     /\ ~LastCall.first_step
     /\ Len(LastCall.stacked_on) = 2
     /\ ~LastCall.self.ability_expended) =>
        /\ track[LastCall.pos + 2] =
              LastCall.ahead \o LastCall.stacked_on \o <<"Cantarella">> \o LastCall.stacked_by
        /\ \A q \in Range(LastCall.stacked_on) : cubes[q].position = LastCall.pos + 1
        /\ cubes["Cantarella"].position = LastCall.pos + 1
        /\ cubes["Cantarella"].ability_expended

\* the post-round phase of a round has just ended, its last draw a success
PostRoundDrawSucceeded == pc = "idle" /\ Len(winners) = 0 /\ last_draws = <<[trig |-> TRUE]>>

\* C8: when a round without a winner ends with a cube below Changli and the 65%
\* draw succeeds, Changli's flag is set and Changli is last in the next round's
\* order, whatever permutation is drawn.
C8_ChangliMovesLast ==
    [][ (/\ "Changli" \in Range(players)
         /\ PostRoundDrawSucceeded
         /\ Len(get_stacked_players(track, cubes, "Changli").stacked_on) > 0
         /\ pc' = "turn") =>
            /\ cubes["Changli"].ability_active
            /\ round_order'[Len(round_order')] = "Changli"
      ]_vars

\* C9: Cartethiya's flag goes from unset to set only in a post-round phase in
\* which Cartethiya itself is ranked last; in a post-round phase in which it is not
\* ranked last the flag keeps its value; a roll made with the flag unset has bonus 0.
C9_ComebackOnlyWhenLast ==
    [][ "Cartethiya" \in Range(players) =>
            LET me == cubes["Cartethiya"]
                last == get_ranks(track)["Cartethiya"] = Len(players)
            IN /\ (pc = "post" /\ ~last) =>
                      cubes'["Cartethiya"].ability_active = me.ability_active
               /\ (~me.ability_active /\ cubes'["Cartethiya"].ability_active) =>
                      pc = "post" /\ last
               /\ (pc = "idle" /\ pc' = "turn" /\ ~me.ability_active) =>
                      \A i \in 1..Len(round_turns') :
                          round_turns'[i].player = "Cartethiya" => round_turns'[i].bonus = 0
      ]_vars

\* C10: a roll of Zani made with a cube above it sets the charged flag when the
\* 40% draw succeeds; a roll made with the flag set has bonus 2 and consumes it
\* (unless the draw sets it again), a roll made with the flag unset has bonus 0.
C10_ZaniCharges ==
    [][ ("Zani" \in Range(players) /\ pc = "idle" /\ pc' = "turn") =>
            LET i == IndexOf(round_order', "Zani")
                above == get_stacked_players(track, cubes, "Zani").stacked_by
                charged == Len(above) > 0 /\ last_draws'[i].trig
            IN /\ round_turns'[i].bonus = IF cubes["Zani"].ability_active THEN 2 ELSE 0
               /\ cubes'["Zani"].ability_active = charged
      ]_vars

----------------------------------------------------------------------------
(* Scenario A and the second leg *)

\* the roll (base plus bonus) the round's log holds for p
RolledBy(p) ==
    LET i == CHOOSE i \in 1..Len(round_log.turns) : round_log.turns[i].player = p
    IN round_log.turns[i].roll + round_log.turns[i].bonus

\* two base players, three pads; the round in progress or just won began with both
\* on pad 0, and in it Player1 rolled 3 and Player2 rolled 1
ScenarioA ==
    /\ Range(players) = {"Player1", "Player2"}
    /\ Len(players) = 2
    /\ Len(track) = 3
    /\ round_log # NoRound
    /\ Len(round_log.start[1]) = 2
    /\ RolledBy("Player1") = 3
    /\ RolledBy("Player2") = 1

\* C11 as claimed: in scenario A, whatever the round order and the initial stack
\* order, the round finds a winner (it never reaches its post-round phase) and ends
\* with Player1 on pad 2, returned as the only winner.
C11_ScenarioA_SoleWinner ==
    ScenarioA =>
        /\ pc # "post"
        /\ pc = "idle" => /\ cubes["Player1"].position = 2
                          /\ winners = <<"Player1">>

\* Player1 began the round beneath Player2 and takes the first turn
CarriesPlayer2 ==
    /\ round_log.start[1] = <<"Player1", "Player2">>
    /\ round_log.turns[1].player = "Player1"

\* C11 amended: in scenario A the round finds a winner and ends with Player1 on pad
\* 2 and among the winners; Player1 is the only winner unless it began beneath
\* Player2 and moved first, in which case it carried Player2 along and the winners
\* are Player1, Player2.
C11_ScenarioA_Amended ==
    ScenarioA =>
        /\ pc # "post"
        /\ pc = "idle" => /\ cubes["Player1"].position = 2
                          /\ winners = IF CarriesPlayer2 THEN <<"Player1", "Player2">>
                                       ELSE <<"Player1">>

\* C11 witness: Player1 began beneath Player2, Player2 moved first, and the round is
\* over
C11_Witness ==
    /\ ScenarioA
    /\ pc = "idle"
    /\ round_log.start[1] = <<"Player1", "Player2">>
    /\ round_log.turns[1].player = "Player2"

\* full_game hands over from the first leg to the second
SecondLegBuilt == leg = 1 /\ leg' = 2

\* the second leg has just been set up, nothing played in it
SecondLegFresh == leg = 2 /\ pc = "idle" /\ winners = <<>> /\ track[1] # <<>>

OccupiedPads(t) == {i \in 1..Len(t) : t[i] # <<>>}

\* C12: the track built for the second leg is G pads longer than the track the
\* first leg was played on, G the number of pads occupied when the first leg ended,
\* and 1 <= G <= roster size.
C12_SecondLegLength ==
    [][ SecondLegBuilt =>
            LET G == Cardinality(OccupiedPads(track))
            IN /\ Len(track') = Len(track) + G
               /\ G >= 1
               /\ G <= Len(players)
      ]_vars

\* C12 witness: a second leg set up from a first leg that ended with two groups
C12_Witness ==
    /\ SecondLegFresh
    /\ track[2] # <<>>

\* C13: at the start of the second leg the group that ended the first leg on the
\* k-th occupied pad (counted from the start line) stands on pad k-1 with the same
\* stack, so the winners' group is on pad G-1 and the order of the groups is kept;
\* every other pad is empty and every recorded position is the new pad index.
C13_SecondLegStart ==
    [][ SecondLegBuilt =>
            LET occ == OccupiedPads(track)
                G == Cardinality(occ)
                behind(i) == Cardinality({j \in occ : j < i})
            IN /\ \A i \in occ : track'[behind(i) + 1] = track[i]
               /\ \A k \in 1..Len(track') : k > G => track'[k] = <<>>
               /\ track'[G] = track[Len(track)]
               /\ \A p \in Range(players) :
                      /\ cubes'[p].position \in 0..(G - 1)
                      /\ p \in Range(track'[cubes'[p].position + 1])
      ]_vars

\* C13 witness: a second leg set up with a group of two, stacked, on its pad 0
C13_Witness ==
    /\ SecondLegFresh
    /\ Len(track[1]) >= 2

C15_AbortIsNoOp ==
    [][ (pc = "idle" /\ api = "one_round" /\ Len(track[Len(track)]) > 0) =>
            /\ winners' = track[Len(track)]
            /\ track' = track
            /\ cubes' = cubes
            /\ next_round_order' = next_round_order
            /\ players' = players
            /\ last_draws' = NoDraws
            /\ post_calls' = post_calls
            /\ step_log' = step_log
            /\ round_order' = round_order
            /\ round_turns' = round_turns
            /\ error' = "ok"
            /\ pc' = "idle"
      ]_vars

\* C15 witness: the roster was set up on a one-pad track, whose only pad is the
\* finish pad, and one_round returned all of it without a round being played
C15_Witness ==
    /\ api = "one_round"
    /\ pc = "idle"
    /\ Len(track) = 1
    /\ Len(winners) >= 2
    /\ winners = track[1]
    /\ round_log = NoRound

AbilityState(c) == <<c.ability_expended, c.ability_active, c.num_carried>>

\* C20: setting a leg up leaves every competitor's ability state (expended flag,
\* active flag, carried count) and the pending overrides as they were; the setup
\* of the second leg leaves the listing as it was, too.
C20_SetupKeepsAbilityState ==
    [][ (leg' # leg) =>
            /\ \A p \in Range(players) : AbilityState(cubes'[p]) = AbilityState(cubes[p])
            /\ next_round_order' = next_round_order
            /\ DOMAIN cubes' = DOMAIN cubes
            /\ leg' = 2 => players' = players
      ]_vars

\* C20 witness: the second leg was set up with Cantarella's one-shot ability spent
\* in the first
C20_Witness ==
    /\ SecondLegFresh
    /\ cubes["Cantarella"].ability_expended
    /\ cubes["Cantarella"].num_carried >= 1

----------------------------------------------------------------------------
(* move_player_to *)

\* the call about to be made
CallPlayer == Head(pending)[1]

CallPad == Head(pending)[2]

CallIndex == Head(pending)[3]

\* the recorded position of the cube is not the pad that holds it
Stale(p) == p \notin Range(track[cubes[p].position + 1])

\* the call failed and changed nothing
FailedUnchanged ==
    /\ error' # "ok"
    /\ track' = track
    /\ cubes' = cubes

\* the cube left its pad for the target pad, nothing else moved
MovedToPad ==
    /\ error' = "ok"
    /\ Occurrences(track', CallPlayer) = 1
    /\ CallPlayer \in Range(track'[CallPad + 1])
    /\ cubes'[CallPlayer].position = CallPad
    /\ \A q \in Range(players) \ {CallPlayer} : cubes'[q] = cubes[q]
    /\ \A i \in 1..Len(track) :
          SelectSeq(track'[i], LAMBDA q : q # CallPlayer)
              = SelectSeq(track[i], LAMBDA q : q # CallPlayer)

\* the stack index (0-based) the cube has on the target pad after the call
LandedAt == IndexOf(track'[CallPad + 1], CallPlayer) - 1

\* C17: the call fails, leaving the track and the recorded positions as
\* they were, when the cube's recorded position is not the pad that holds it;
\* otherwise the cube leaves its pad and stands in the target pad at the given stack
\* index, on top when none is given, its recorded position the target pad.
C17_MovePlayerTo ==
    [][ pc = "call" =>
            IF Stale(CallPlayer) THEN FailedUnchanged
            ELSE /\ MovedToPad
                 /\ LandedAt = IF CallIndex = None THEN Len(track'[CallPad + 1]) - 1
                                ELSE CallIndex[1]
      ]_vars

\* C17 witness: a call for a cube whose recorded position was stale has failed with
\* list.remove's ValueError
C17_Witness ==
    /\ api = "move_player_to"
    /\ pc = "crashed"
    /\ error = "ValueError"
    /\ \E p \in Range(players) : Stale(p)

----------------------------------------------------------------------------
(* The overrides of the round order *)

\* one_round draws a round order
OrderDrawn == pc = "idle" /\ pc' = "turn"

\* the request (p, pos) shows in the order: p is last (pos None) or at index pos
Honoured(order, request) ==
    IF request[2] = None THEN order[Len(order)] = request[1]
    ELSE order[request[2][1] + 1] = request[1]

----------------------------------------------------------------------------
(* Malformed rosters *)

\* the competitors among the entries of the constructor's argument
Competitors(arg) == SelectSeq(arg, LAMBDA p : p # NotAPlayer)

\* the constructor refused its argument: a configuration error, nothing set up,
\* no round played
Rejected ==
    /\ error = "ConfigurationError"
    /\ SumLen(track) = 0
    /\ pc = "idle"
    /\ round_log = NoRound

\* C18: a roster without a competitor in it (empty, or all of its entries neither
\* names nor Player objects) is rejected with a configuration error before any
\* round; nothing is set up or played on a substituted or an empty roster.
C18_EmptyRosterRejected ==
    Len(Competitors(roster)) = 0 => Rejected

HasDuplicates(arg) ==
    \E i, j \in 1..Len(arg) : i # j /\ arg[i] = arg[j] /\ arg[i] # NotAPlayer

\* C19: a roster that lists a competitor twice is rejected with a configuration
\* error before any round, and in no state does a competitor stand in two slots.
C19_DuplicatesRejected ==
    /\ HasDuplicates(roster) => Rejected
    /\ \A p \in Range(players) : Occurrences(track, p) <= 1

----------------------------------------------------------------------------
(* simulate_batch *)

\* the first leg of a match has just been set up, nothing played in it
FirstLegFresh ==
    /\ leg = 1
    /\ pc = "idle"
    /\ Len(track[1]) = Len(players)

\* C21: in a batch, at the start of leg 1 of every match, every competitor's ability
\* flags and counters are those of a freshly constructed competitor, whatever
\* happened in the earlier matches of the batch.
C21_BatchStartsClean ==
    (api = "simulate_batch" /\ FirstLegFresh) =>
        \A p \in Range(players) : AbilityState(cubes[p]) = AbilityState(NewPlayer)

\* the number of legs, of all the matches played, that p was among the winners of
LegsWon(p) == Cardinality({i \in 1..Len(leg_log) : p \in Range(leg_log[i])})

\* the tally of p in simulate_batch's winners
TallyOf(p) == Cardinality({j \in 1..Len(batch.winners) : batch.winners[j] = p})

\* simulate_batch is between two matches, or past the last
BetweenMatches == api = "simulate_batch" /\ leg = 0

\* C22: after the matches of a batch each competitor's tally is the number of legs,
\* two per match, it was among the winners of, and the tallies add up to the sizes of
\* the winner lists; what is returned gives each competitor in it that tally (over
\* the total when normalized), and the normalized list is in non-increasing order of
\* frequency.
C22_BatchTally ==
    BetweenMatches =>
        /\ Len(leg_log) = 2 * batch.done
        /\ \A p \in Range(players) : TallyOf(p) = LegsWon(p)
        /\ Len(batch.winners) = SumLen(leg_log)
        /\ pc = "returned" =>
              /\ batch.done = batch.n
              /\ \A i \in 1..Len(batch.returned) :
                    batch.returned[i][2] =
                        IF batch.normalized
                        THEN <<LegsWon(batch.returned[i][1]), SumLen(leg_log)>>
                        ELSE LegsWon(batch.returned[i][1])
              /\ batch.normalized =>
                    \A i, j \in 1..Len(batch.returned) :
                        i < j => ~FracLess(batch.returned[i][2], batch.returned[j][2])

\* C22 witness: a normalized batch returned two competitors, the one that won the
\* more legs first although it entered the tally second
C22_Witness ==
    /\ BetweenMatches
    /\ pc = "returned"
    /\ batch.normalized
    /\ Len(batch.returned) = 2
    /\ batch.returned[1][1] # batch.winners[1]
    /\ FracLess(batch.returned[2][2], batch.returned[1][2])

\* C23: in the normalized result of a batch of one match or more every frequency is
\* tally / total and not negative, the frequencies add up to 1, and every competitor
\* of the roster that won no leg is in the result with frequency 0.
C23_Normalized ==
    (BetweenMatches /\ pc = "returned" /\ batch.normalized /\ batch.n >= 1) =>
        LET total == Len(batch.winners)
        IN /\ \A i \in 1..Len(batch.returned) :
                 /\ batch.returned[i][2] = <<TallyOf(batch.returned[i][1]), total>>
                 /\ batch.returned[i][2][1] >= 0
           /\ total > 0
           /\ SumValues([i \in 1..Len(batch.returned) |->
                            <<batch.returned[i][1], batch.returned[i][2][1]>>]) = total
           /\ \A p \in Range(players) :
                 LegsWon(p) = 0 =>
                     \E i \in 1..Len(batch.returned) : batch.returned[i] = <<p, <<0, total>>>>

----------------------------------------------------------------------------
(* get_ranks *)

\* the pad (index of the track) that holds p
PadOf(p) == CHOOSE i \in 1..Len(track) : p \in Range(track[i])

\* C24: get_ranks maps the K competitors one-to-one onto 1..K; a competitor on a pad
\* nearer the finish has a smaller rank than one on a pad further back, of two on
\* the same pad the higher in the stack has the smaller rank, and rank 1 is the top
\* of the furthest occupied pad.
C24_RanksBijection ==
    LET ranks == get_ranks(track)
        furthest == CHOOSE i \in OccupiedPads(track) : \A j \in OccupiedPads(track) : j <= i
    IN /\ DOMAIN ranks = Range(players)
       /\ {ranks[p] : p \in Range(players)} = 1..Len(players)
       /\ \A p, q \in Range(players) :
             /\ PadOf(p) > PadOf(q) => ranks[p] < ranks[q]
             /\ (PadOf(p) = PadOf(q)
                   /\ IndexOf(track[PadOf(p)], p) > IndexOf(track[PadOf(q)], q)) =>
                      ranks[p] < ranks[q]
       /\ ranks[track[furthest][Len(track[furthest])]] = 1

\* C24 witness: a turn begins with two competitors stacked on a pad behind the pad
\* of a third, and the one at the bottom of the stack is ranked last
C24_Witness ==
    /\ pc = "turn"
    /\ Len(players) = 3
    /\ \E i \in 2..Len(track) : \E j \in (i + 1)..Len(track) :
          /\ Len(track[i]) = 2
          /\ Len(track[j]) = 1
          /\ get_ranks(track)[track[j][1]] = 1
          /\ get_ranks(track)[track[i][1]] = 3

----------------------------------------------------------------------------
(* The pre-shuffle of the listing *)

\* C25: two simulators that differ in the order of the listing alone and are given
\* the same round orders and rolls have every competitor on the same pad after
\* every turn, and their rounds return the same winners.
C25_ShuffleNoEffect ==
    api = "twin" =>
        /\ \A p \in Range(players) : cubes[p].position = twin.cubes[p].position
        /\ Range(winners) = Range(twin.winners)

----------------------------------------------------------------------------
(* Camellya, Cantarella, Jinhsi *)

\* the step just applied was the default carry: the mover and the cubes above it
\* went one pad forward, in their order, on top of what stood there; the cubes below
\* stayed
CarriedAbove ==
    /\ track[LastCall.pos + 1] = LastCall.stacked_on
    /\ track[LastCall.pos + 2] = LastCall.ahead \o <<Mover>> \o LastCall.stacked_by
    /\ \A q \in {Mover} \cup Range(LastCall.stacked_by) : cubes[q].position = LastCall.pos + 1
    /\ \A q \in Range(LastCall.stacked_on) : cubes[q].position = LastCall.pos

Moved(actions) == {actions[i][1] : i \in 1..Len(actions)}

\* C27: Cantarella's ability_expended, once True, stays True, over turns, rounds
\* and legs; the step that sets it, the first to carry cubes from below her, is not
\* the first step of a turn and finds a cube below her; and every step of a turn
\* she begins with the ability expended is the default carry, the cubes below her
\* left behind.
C27_CarrierOneShot ==
    [][ "Cantarella" \in Range(players) =>
            /\ cubes["Cantarella"].ability_expended => cubes'["Cantarella"].ability_expended
            /\ (~cubes["Cantarella"].ability_expended /\ cubes'["Cantarella"].ability_expended) =>
                  /\ pc = "step"
                  /\ Mover = "Cantarella"
                  /\ ~LastCall'.first_step
                  /\ Len(LastCall'.stacked_on) >= 1
                  /\ Range(LastCall'.stacked_on) \subseteq Moved(pending')
            /\ (pc = "step" /\ Mover = "Cantarella"
                  /\ Moved(pending') \cap Range(LastCall'.stacked_on) # {}) =>
                     /\ ~LastCall'.first_step
                     /\ ~step_log'[1].self.ability_expended
            /\ (StepApplied' /\ Mover' = "Cantarella"
                  /\ step_log'[1].self.ability_expended) => CarriedAbove'
      ]_vars

\* C27 witness: in the second leg Cantarella, her ability expended in an earlier
\* turn, took a step that was not the first of her turn from on top of a cube, and
\* left it behind
C27_Witness ==
    /\ leg = 2
    /\ StepApplied
    /\ Mover = "Cantarella"
    /\ step_log[1].self.ability_expended
    /\ ~LastCall.first_step
    /\ Len(LastCall.stacked_on) >= 1
    /\ track[LastCall.pos + 1] = LastCall.stacked_on

\* the calls of the turn in progress at which Cantarella's ability triggered: not
\* a first step, a cube below her, the ability not expended
TriggerCalls ==
    {k \in 1..Len(step_log) : /\ ~step_log[k].first_step
                              /\ Len(step_log[k].stacked_on) >= 1
                              /\ ~step_log[k].self.ability_expended}

\* the cubes Cantarella picked up when her ability triggered in this turn
PickedUp == Range(step_log[CHOOSE k \in TriggerCalls : TRUE].stacked_on)

\* C28: in the turn in which Cantarella's ability triggers, every step after the
\* trigger moves Cantarella, the cubes she picked up at the trigger and the cubes
\* above her, and nothing else: the cubes that stood on a pad she passes through
\* stay on it.  Her ability_active implies ability_expended and num_carried >= 1, and
\* is False whenever no turn of hers is in progress.
C28_CarriesThePickedUp ==
    "Cantarella" \in Range(players) =>
        LET me == cubes["Cantarella"]
        IN /\ me.ability_active => me.ability_expended
           /\ me.ability_expended => me.num_carried >= 1
           /\ me.ability_active => pc \in {"step", "move"} /\ Mover = "Cantarella"
           /\ (StepApplied /\ Mover = "Cantarella" /\ TriggerCalls # {}
                 /\ LastCall.self.ability_expended) =>
                    /\ Cardinality(TriggerCalls) = 1
                    /\ me.num_carried = Cardinality(PickedUp)
                    /\ PickedUp \subseteq Range(LastCall.stacked_on)
                    /\ track[LastCall.pos + 1] =
                          SelectSeq(LastCall.stacked_on, LAMBDA q : q \notin PickedUp)
                    /\ IsPrefix(LastCall.ahead, track[LastCall.pos + 2])
                    /\ Range(track[LastCall.pos + 2]) =
                          Range(LastCall.ahead) \cup PickedUp \cup {"Cantarella"}
                              \cup Range(LastCall.stacked_by)
                    /\ LastN(track[LastCall.pos + 2], 1 + Len(LastCall.stacked_by)) =
                          <<"Cantarella">> \o LastCall.stacked_by

\* C28 witness: after the trigger Cantarella took a step from a pad on which a cube
\* stood before she came, carried the cube she had picked up and left that cube
\* where it was
C28_Witness ==
    /\ StepApplied
    /\ Mover = "Cantarella"
    /\ TriggerCalls # {}
    /\ LastCall.self.ability_expended
    /\ Len(LastCall.stacked_on) > Cardinality(PickedUp)
    /\ track[LastCall.pos + 1] # <<>>
    /\ cubes["Cantarella"].num_carried >= 1

\* the call drew Jinhsi's 40% draw, and the draw succeeded
Climbs(call) == call.first_step /\ Len(call.stacked_by) > 0 /\ call.trig

\* C29: when Jinhsi's ability triggers, on the first step of a turn with a cube
\* above her, the step leaves her alone on top of the next pad and the cubes that
\* were below and above her on the pad she left, in their order; her flag is False
\* after the step, as it is at every call, and every other step of hers is the
\* default carry.
C29_JinhsiClimbs ==
    (StepApplied /\ Mover = "Jinhsi") =>
        /\ ~cubes["Jinhsi"].ability_active
        /\ ~LastCall.self.ability_active
        /\ IF Climbs(LastCall)
           THEN /\ track[LastCall.pos + 1] = LastCall.stacked_on \o LastCall.stacked_by
                /\ track[LastCall.pos + 2] = LastCall.ahead \o <<"Jinhsi">>
                /\ cubes["Jinhsi"].position = LastCall.pos + 1
                /\ \A q \in Range(LastCall.stacked_on) \cup Range(LastCall.stacked_by) :
                      cubes[q].position = LastCall.pos
           ELSE CarriedAbove

\* C29 witness: Jinhsi's ability triggered with a cube below her and a cube above
\* her, and she has taken a second step since
C29_Witness ==
    /\ StepApplied
    /\ Mover = "Jinhsi"
    /\ steps_done = 2
    /\ Climbs(step_log[1])
    /\ Len(step_log[1].stacked_on) >= 1
    /\ Len(step_log[1].stacked_by) >= 1

----------------------------------------------------------------------------
(* The bonuses of Roccia, Brant and Calcharo *)

\* the bonus the order gives the cube that rolls i-th in it
OrderBonus(name, i, order) ==
    CASE name = "Roccia" -> IF i = Len(order) THEN 2 ELSE 0
      [] name = "Brant" -> IF i = 1 THEN 2 ELSE 0
      [] name = "Calcharo" -> IF i = Len(order) THEN 3 ELSE 0
      [] OTHER -> 0

\* C30: the bonuses that depend on the order are those of the order the round is
\* played in, the overrides applied: Roccia gets 2 iff she is last in it, Brant 2
\* iff he is first, Calcharo 3 iff he is last; a cube alone in the roster is both
\* first and last.
C30_OrderBonuses ==
    InRound =>
        /\ \E shuffled \in Perms(players) : round_order = roll_round_order(shuffled, round_log.modify_order)
        /\ Len(round_log.turns) = Len(round_order)
        /\ \A i \in 1..Len(round_log.turns) :
              /\ round_log.turns[i].player = round_order[i]
              /\ round_log.turns[i].bonus = OrderBonus(round_order[i], i, round_order)
        /\ Len(players) = 1 => round_log.turns[1].bonus = IF players[1] = "Calcharo" THEN 3 ELSE 2

\* C30 witness: a round whose order has Calcharo first and Roccia last because of
\* the overrides, Calcharo without his bonus and Roccia with hers
C30_Witness ==
    /\ pc = "turn"
    /\ round_log.modify_order = <<<<"Calcharo", <<0>>>>, <<"Roccia", None>>>>
    /\ round_order = <<"Calcharo", "Brant", "Roccia">>
    /\ round_log.turns[1].bonus = 0
    /\ round_log.turns[2].bonus = 0
    /\ round_log.turns[3].bonus = 2

----------------------------------------------------------------------------
(* The rolls of a round *)

\* the rolls drawn in the round being played, and the turns it has reached, the
\* one being played included
RollsDrawn == Len(round_log.turns)

TurnsReached == Len(round_log.turns) - Len(round_turns) + 1

\* C31: turns are resolved one after another and a roll is drawn at the start of
\* its own turn: while the turns of a round are played, no more rolls have been
\* drawn than turns have been reached, so none is drawn for a turn never reached.
C31_RollAtOwnTurn ==
    (InRound /\ pc # "post") => RollsDrawn <= TurnsReached

\* C31 amended: every roll of the round is drawn when the round starts, one for
\* each competitor in round order, reached or not; the turns are then resolved one
\* after another, in that order and with those rolls, a turn beginning when no
\* action of an earlier turn is left to apply.
C31_RollsAtRoundStart ==
    /\ InRound =>
          /\ RollsDrawn = Len(players)
          /\ \A i \in 1..RollsDrawn : round_log.turns[i].player = round_order[i]
    /\ (InRound /\ pc # "post") =>
          /\ TurnsReached \in 1..RollsDrawn
          /\ round_turns = SubSeq(round_log.turns, TurnsReached, RollsDrawn)
    /\ pc = "turn" => pending = <<>> /\ steps_done = 0
    /\ pc \in {"step", "move"} =>
          num_steps = NumSteps(Head(round_turns).roll, Head(round_turns).bonus, Len(track), start_pos)

\* C31 witness: the first turn of a round of three ends on the finish line, the
\* rolls of the two turns never reached drawn
C31_Witness ==
    /\ pc = "check"
    /\ Len(get_winners(track)) > 0
    /\ TurnsReached = 1
    /\ RollsDrawn = 3

----------------------------------------------------------------------------
(* Positions and displacements *)

\* an action moves its player forward or not at all, to a pad of the track
InsideTrack(action) ==
    /\ action[2] >= 0
    /\ cubes[action[1]].position + action[2] \in 0..FinishIndex

\* the actions a pass of the post-round loop can collect
PostRoundActions ==
    UNION {Range(post_round_collect(players, cubes, get_ranks(track)[players[post_idx]], trig, 1).actions) : trig \in BOOLEAN}

PositionsInside ==
    /\ error = "ok"
    /\ \A p \in Range(players) : cubes[p].position \in 0..FinishIndex
    /\ pc = "move" => InsideTrack(Head(pending))
    /\ pc = "post" => \A action \in PostRoundActions : InsideTrack(action)

NoStepBack ==
    leg' = leg => \A p \in Range(players) : cubes'[p].position >= cubes[p].position

\* C32: in every state of a leg every position is a pad of the track, every
\* action applied by step or post_round moves its player by zero or more pads to
\* a pad of the track, and no position decreases within a leg.
C32_Positions == []PositionsInside /\ [][NoStepBack]_vars

\* C32 witness: in the second leg, an action about to be applied that takes its
\* player onto the finish pad
C32_Witness ==
    /\ leg = 2
    /\ pc = "move"
    /\ cubes[Head(pending)[1]].position + Head(pending)[2] = FinishIndex

----------------------------------------------------------------------------
(* Termination of half_game and full_game *)

\* the position p had when the round in progress started
RoundStartPosition(p) == (CHOOSE i \in 1..Len(round_log.start) : p \in Range(round_log.start[i])) - 1

\* a round whose turns found no winner has moved every competitor forward
RoundAdvances ==
    pc = "post" => \A p \in Range(players) : cubes[p].position > RoundStartPosition(p)

\* a turn that is reached has a step to take, and its steps take its owner forward
TurnAdvances ==
    /\ pc \in {"step", "move"} => num_steps >= 1
    /\ (pc = "check" /\ num_steps >= 1) => cubes[Mover].position >= start_pos + 1

\* at most finish_index rounds have been rolled since match_setup
RoundsBounded == rounds[1] <= FinishIndex

\* the winner lists half_game has returned are not empty
LegsHaveWinners == \A i \in 1..Len(leg_log) : Len(leg_log[i]) >= 1

FullGameReturned ==
    /\ leg = 2
    /\ pc = "idle"
    /\ Len(first_winners) >= 1
    /\ Len(winners) >= 1
    /\ leg_log = <<first_winners, winners>>

\* C33: every round entered without winners ends with a winner or with every
\* competitor further on, every turn reached moving its owner by one pad or more;
\* so half_game ends with winners after at most finish_index rounds and full_game
\* returns two non-empty winner lists.
C33_Termination ==
    /\ [](RoundAdvances /\ TurnAdvances /\ RoundsBounded /\ LegsHaveWinners)
    /\ api = "full_game" => <>[]FullGameReturned

\* C33 witness: the first half_game has returned its winners after as many rounds
\* as the finish index
C33_Witness ==
    /\ leg = 1
    /\ pc = "idle"
    /\ Len(winners) >= 1
    /\ rounds[1] = FinishIndex

----------------------------------------------------------------------------
(* What a step leaves alone *)

\* the competitors on the stepping competitor's pad when the step began
OnStepPad(call) == Range(call.stacked_on) \cup {Mover} \cup Range(call.stacked_by)

\* the stack index of q on its pad of track t
StackIndex(t, cs, q) == IndexOf(t[cs[q].position + 1], q)

\* the application of one action of a step of a competitor that stood on pad p
MoveFrame(call) ==
    /\ Head(pending)[1] \in OnStepPad(call)
    /\ Len(track') = Len(track)
    /\ \A i \in 1..Len(track) : i \notin {call.pos + 1, call.pos + 2} => track'[i] = track[i]
    /\ \A q \in Range(players) \ OnStepPad(call) :
          /\ cubes'[q].position = cubes[q].position
          /\ StackIndex(track', cubes', q) = StackIndex(track, cubes, q)
    /\ IsPrefix(call.ahead, track'[call.pos + 2])

\* C34: a step of a competitor on pad p changes pad p and pad p+1 alone: the
\* competitors of the other pads keep position and stack index, the occupants of
\* pad p+1 stay in their order beneath the newcomers, and only competitors that
\* stood on pad p when the step began are moved, whatever the variant.
C34_StepFrame ==
    [][/\ pc = "step" => track' = track /\ \A q \in Range(players) : cubes'[q].position = cubes[q].position
       /\ pc = "move" => MoveFrame(LastCall)]_vars

\* C34 witness: a step has been applied that left a competitor behind on pad p and
\* put the newcomers on top of the occupants of pad p+1
C34_Witness ==
    /\ StepApplied
    /\ Len(LastCall.stacked_on) >= 1
    /\ Len(LastCall.ahead) >= 1
    /\ IsPrefix(LastCall.ahead, track[LastCall.pos + 2])
    /\ Len(track[LastCall.pos + 2]) > Len(LastCall.ahead)

----------------------------------------------------------------------------
(* The override queue between legs *)

\* the round in progress rolled its order and cleared the queue, and its post-round
\* phase has not begun
QueueClearedForTurns == (InRound /\ pc # "post") => next_round_order = <<>>

\* a leg has ended: its last round left no request and called no post_round
LegEnded == pc = "idle" /\ leg \in {1, 2} /\ Len(winners) >= 1

LegEndsClean ==
    LegEnded =>
        /\ next_round_order = <<>>
        /\ \A p \in Range(players) : post_calls[p] = <<>>

\* no request reaches an order of the second leg
SecondLegUnperturbed == (leg = 2 /\ InRound) => round_log.modify_order = <<>>

\* match_setup leaves the queue as it finds it: empty after a leg, and before the
\* first leg as the constructor, or the caller, left it
SetupKeepsQueue ==
    leg' # leg =>
        /\ next_round_order' = next_round_order
        /\ leg' = 2 => next_round_order' = <<>>

\* C35: the override queue is empty when a leg starts after another: the round in
\* which a leg ends clears the queue before its turns and runs no post-round phase,
\* so no request of the first leg touches the orders of the second.
C35_QueueEmptyAtLegStart ==
    /\ [](QueueClearedForTurns /\ LegEndsClean /\ SecondLegUnperturbed)
    /\ [][SetupKeepsQueue]_vars

\* C35 witness: the first round of the second leg has rolled its order, the queue
\* empty and no request applied
C35_Witness ==
    /\ leg = 2
    /\ pc = "turn"
    /\ Len(round_turns) = Len(players)
    /\ round_log.start[1] # <<>>
    /\ round_log.modify_order = <<>>
    /\ next_round_order = <<>>

=============================================================================
